---------------------------- MODULE Spec2Model ----------------------------
(***************************************************************************)
(* Model of metalsmith-seo: the metadata resolver (metadata-extractor.js),  *)
(* the robots part of the meta generator, the head mutator                  *)
(* (html-injector.js), the orchestrator (head-optimizer.js) and the plugin *)
(* function with buildConfig, processSitemap and processRobots.            *)
(*                                                                         *)
(* JavaScript values are records [t, s, a]: t is the runtime type, s the   *)
(* text of a string/number/boolean/date as a sequence of atoms (opaque     *)
(* substrings; "/" , "," and " " are atoms of their own), a the elements   *)
(* of an array.  Titles and descriptions are written one character per     *)
(* atom.  The head of an HTML document is the sequence of its element      *)
(* children in document order.                                             *)
(***************************************************************************)
EXTENDS Integers, Sequences, FiniteSets, TLC

VARIABLES
    fm,         \* frontmatter of the document under resolution
    opts,       \* options handed to optimizeHead / extractMetadata
    metadata,   \* result of extractMetadata (or the thrown marker)
    gen,        \* result of generateAllSeoContent (NoGenerated before it ran)
    rpc,        \* position of the resolve-then-generate pipeline
    html,       \* head of the document being (re)built
    prevHtml,   \* head as it was before the last build
    builds,     \* number of builds done on html
    sameRuns,   \* consecutive builds done with the current metadata
    injected,   \* meta tags injected by the builds so far: <<attribute, key>> pairs
    fileList,   \* batchOptimizeHeads: kinds of the documents, in list order
    batchSize,  \* batchOptimizeHeads: options.batchSize
    bi,         \* batchOptimizeHeads: loop variable i
    task,       \* batchOptimizeHeads: per-document pipeline position
    results,    \* batchOptimizeHeads: results object
    bpc,        \* batchOptimizeHeads: position of the batch loop
    waveOf,     \* batchOptimizeHeads: wave in which a document was started
    wave,       \* batchOptimizeHeads: number of the current wave
    pluginOptions, \* plugin: the options the plugin was created with
    siteMetadata,  \* plugin: metalsmith.metadata() at the metadata path
    config,     \* plugin: result of buildConfig
    sitemap,    \* plugin: outcome of processSitemap and the sitemap file
    robotsTxt,  \* plugin: files["robots.txt"]
    ppc,        \* plugin: position of the plugin function
    doneCalls,  \* plugin: number of calls of the completion callback
    siteMetadataCache, \* module-level cache of the cached plugin entry
    doneArg,    \* plugin: argument the completion callback was called with
    runs        \* plugin: number of completed runs on the same files

vars == <<fm, opts, metadata, gen, rpc, html, prevHtml, builds, sameRuns,
          injected, fileList, batchSize, bi, task, results, bpc, waveOf, wave,
          pluginOptions, siteMetadata, config, sitemap, robotsTxt, ppc, doneArg, runs,
          doneCalls, siteMetadataCache>>

resolveVars == <<fm, opts, metadata, gen, rpc>>
headVars == <<html, prevHtml, builds, sameRuns, injected>>
batchVars == <<fileList, batchSize, bi, task, results, bpc, waveOf, wave>>
pluginVars == <<pluginOptions, siteMetadata, config, sitemap, robotsTxt, ppc, doneArg, runs,
                doneCalls, siteMetadataCache>>

---------------------------------------------------------------------------
(* JavaScript values *)

Undef == [t |-> "undef", s |-> <<>>, a |-> <<>>]
Null == [t |-> "null", s |-> <<>>, a |-> <<>>]
Threw == [t |-> "throw", s |-> <<>>, a |-> <<>>]

Str(s) == [t |-> "str", s |-> s, a |-> <<>>]
Num(n) == [t |-> "num", s |-> <<n>>, a |-> <<>>]
Bool(b) == [t |-> "bool", s |-> <<b>>, a |-> <<>>]
Arr(a) == [t |-> "arr", s |-> <<>>, a |-> a]
DateObj(iso) == [t |-> "date", s |-> <<iso>>, a |-> <<>>]
InvalidDate == [t |-> "date", s |-> <<>>, a |-> <<>>]
Obj(s) == [t |-> "obj", s |-> s, a |-> <<>>]

\* ToBoolean: undefined, null, "", 0 and false are falsy
Truthy(v) ==
    CASE v.t \in {"undef", "null"} -> FALSE
      [] v.t = "str" -> v.s # <<>>
      [] v.t = "num" -> v.s # <<"0">>
      [] v.t = "bool" -> v.s = <<"true">>
      [] OTHER -> TRUE

\* a || b
Or(a, b) == IF Truthy(a) THEN a ELSE b

\* v !== undefined && v !== null
Defined(v) == v.t \notin {"undef", "null"}


---------------------------------------------------------------------------
(* Strings as sequences of atoms *)

RECURSIVE DropLeadingSlashes(_)
DropLeadingSlashes(s) ==
    IF s # <<>> /\ Head(s) = "/" THEN DropLeadingSlashes(Tail(s)) ELSE s

\* str.replace(/\/+/g, "/"): every run of slashes becomes one slash
RECURSIVE CollapseSlashes(_)
CollapseSlashes(s) ==
    IF s = <<>> THEN <<>>
    ELSE IF Head(s) = "/" THEN <<"/">> \o CollapseSlashes(DropLeadingSlashes(s))
    ELSE <<Head(s)>> \o CollapseSlashes(Tail(s))

\* str.replace(/\/$/, "")
StripTrailingSlash(s) ==
    IF s # <<>> /\ s[Len(s)] = "/" THEN SubSeq(s, 1, Len(s) - 1) ELSE s

\* str.replace(/\.html?$/, "")
StripHtmlExtension(s) ==
    IF s # <<>> /\ s[Len(s)] \in {".html", ".htm"} THEN SubSeq(s, 1, Len(s) - 1) ELSE s

\* str.replace(/\/index$/, "")
StripIndexSegment(s) ==
    IF Len(s) >= 2 /\ s[Len(s)] = "index" /\ s[Len(s) - 1] = "/"
    THEN SubSeq(s, 1, Len(s) - 2) ELSE s

\* str.startsWith("http")
StartsWithHttp(s) == s # <<>> /\ Head(s) \in {"http:", "https:"}

\* arr.join(", ")
RECURSIVE JoinComma(_)
JoinComma(a) ==
    IF a = <<>> THEN <<>>
    ELSE IF Len(a) = 1 THEN a[1]
    ELSE a[1] \o <<",", " ">> \o JoinComma(Tail(a))

RECURSIVE TrimLeft(_)
TrimLeft(s) == IF s # <<>> /\ Head(s) = " " THEN TrimLeft(Tail(s)) ELSE s

RECURSIVE TrimRight(_)
TrimRight(s) ==
    IF s # <<>> /\ s[Len(s)] = " " THEN TrimRight(SubSeq(s, 1, Len(s) - 1)) ELSE s

\* str.trim()
Trim(s) == TrimRight(TrimLeft(s))

\* str.split(","), the piece under construction carried in cur
RECURSIVE SplitComma(_, _)
SplitComma(s, cur) ==
    IF s = <<>> THEN <<cur>>
    ELSE IF Head(s) = "," THEN <<cur>> \o SplitComma(Tail(s), <<>>)
    ELSE SplitComma(Tail(s), Append(cur, Head(s)))

\* new Date(str): the date strings the model uses and the ISO form of each;
\* every other string parses to an invalid date
ParsedDate(s) ==
    CASE s = <<"2025-01-01">> -> <<"2025-01-01T00:00:00.000Z">>
      [] s = <<"2025-02-02">> -> <<"2025-02-02T00:00:00.000Z">>
      [] s = <<"2025-06-02">> -> <<"2025-06-02T00:00:00.000Z">>
      [] OTHER -> <<>>

---------------------------------------------------------------------------
(* Frontmatter: fm.seoKind / fm.cardKind give the runtime type of the seo   *)
(* and card values; fm.seo, fm.card and fm.root hold their properties.     *)

SeoFields == {"title", "description", "image", "socialImage", "canonicalURL", "robots",
              "noIndex", "type", "publishDate", "modifiedDate", "author", "keywords", "date"}
CardFields == {"title", "excerpt", "image", "date", "author", "tags", "modifiedDate"}
RootFields == {"title", "excerpt", "image", "featured_image", "date", "updated", "author",
               "tags", "price", "sku", "address", "phone", "custom"}

EmptySeo == [f \in SeoFields |-> Undef]
EmptyCard == [f \in CardFields |-> Undef]
EmptyRoot == [f \in RootFields |-> Undef]

\* get(obj, pathStr) of object-utils.js on the properties of the seo object
GetSeo(seoData, key) ==
    IF key = "" \/ key \notin SeoFields THEN Undef ELSE seoData[key]

\* get(frontmatter, "card." + key): undefined unless card is an object
GetCard(f, key) ==
    IF key = "" \/ f.cardKind # "obj" \/ key \notin CardFields THEN Undef ELSE f.card[key]

\* get(frontmatter, path) at root level; "author.name" reads the name of an
\* author object and is undefined for an author of any other type
GetRoot(f, path) ==
    IF path = "" THEN Undef
    ELSE IF path = "author.name"
         THEN (IF f.root["author"].t = "obj" THEN Str(f.root["author"].s) ELSE Undef)
    ELSE IF path \in RootFields THEN f.root[path]
    ELSE Undef

\* const seoData = get(frontmatter, seoProperty) || {}: property reads on a
\* truthy primitive give undefined, as on the empty object
SeoData(f) == IF f.seoKind = "obj" THEN f.seo ELSE EmptySeo

---------------------------------------------------------------------------
(* metadata-extractor.js *)

\* extractWithPriority after its propertyConfig has been unpacked: the first
\* of seo, card and root value that is neither undefined nor null
ExtractWithPriority(seoData, f, seoProperty, cardProperty, rootProperty, defaultValue) ==
    IF seoProperty # "" /\ Defined(GetSeo(seoData, seoProperty))
    THEN GetSeo(seoData, seoProperty)
    ELSE IF cardProperty # "" /\ Defined(GetCard(f, cardProperty))
    THEN GetCard(f, cardProperty)
    ELSE IF rootProperty # "" /\ Defined(GetRoot(f, rootProperty))
    THEN GetRoot(f, rootProperty)
    ELSE defaultValue

\* a || b on property paths, "" standing for an unset fallback
OrPath(a, b) == IF a # "" THEN a ELSE b

ExtractTitle(seoData, f, defaults, fallbacks) ==
    LET rootProperty == OrPath(OrPath(fallbacks.title, "title"), "title")
        extracted == ExtractWithPriority(seoData, f, "title", "title", rootProperty, Undef)
    IN  Or(Or(extracted, defaults.title), Str(<<"U", "n", "t", "i", "t", "l", "e", "d">>))

\* autoGenerateDescription for a body whose stripped text fits in maxLength
AutoGenerateDescription(contents) ==
    IF ~contents.isBuffer THEN Str(<<>>) ELSE Str(contents.text)

ExtractDescription(seoData, f, defaults, fallbacks) ==
    LET rootProperty == OrPath(OrPath(fallbacks.description, "excerpt"), "")
        extracted == ExtractWithPriority(seoData, f, "description", "excerpt", rootProperty, Undef)
    IN  Or(Or(extracted, defaults.description), AutoGenerateDescription(f.contents))

ExtractImage(seoData, f, defaults, fallbacks, hostname) ==
    LET seoImage == Or(seoData["image"], seoData["socialImage"])
        rootProperty == OrPath(OrPath(fallbacks.image, "featured_image"), "image")
        image == Or(Or(seoImage,
                       ExtractWithPriority(EmptySeo, f, "image", "image", rootProperty, Undef)),
                    defaults.socialImage)
    IN  IF ~Truthy(image) THEN image
        ELSE IF image.t # "str" THEN Threw      \* image.startsWith is not a function
        ELSE IF StartsWithHttp(image.s) THEN image
        ELSE Str(StripTrailingSlash(hostname)
                 \o (IF Head(image.s) = "/" THEN <<>> ELSE <<"/">>) \o image.s)

ExtractCanonicalURL(seoData, filePath, hostname) ==
    IF Truthy(seoData["canonicalURL"]) THEN seoData["canonicalURL"]
    ELSE LET cleanPath == StripIndexSegment(StripHtmlExtension(filePath))
         IN  Str(CollapseSlashes(StripTrailingSlash(hostname) \o <<"/">> \o cleanPath))

ExtractRobots(seoData, defaults) ==
    Or(Or(seoData["robots"], defaults.robots), Str(<<"index,follow">>))

ExtractNoIndex(seoData) == Bool(IF Truthy(seoData["noIndex"]) THEN "true" ELSE "false")

ExtractContentType(seoData, f) ==
    LET hasDate == ExtractWithPriority(seoData, f, "date", "date", "date", Undef)
        hasAuthor == ExtractWithPriority(seoData, f, "author", "author", "author", Undef)
        hasTags == Or(GetRoot(f, "tags"), GetCard(f, "tags"))
    IN  IF Truthy(seoData["type"]) THEN seoData["type"]
        ELSE IF Truthy(hasDate) /\ (Truthy(hasAuthor) \/ Truthy(hasTags)) THEN Str(<<"article">>)
        ELSE IF Truthy(f.root["price"]) \/ Truthy(f.root["sku"]) THEN Str(<<"product">>)
        ELSE IF Truthy(f.root["address"]) \/ Truthy(f.root["phone"]) THEN Str(<<"local-business">>)
        ELSE Str(<<"page">>)

NormalizeDate(date) ==
    IF ~Truthy(date) THEN Null
    ELSE IF date.t = "date"
         THEN (IF date.s = <<>> THEN Threw      \* toISOString of an invalid Date: RangeError
               ELSE Str(date.s))
    ELSE IF date.t = "str"
         THEN (IF ParsedDate(date.s) # <<>> THEN Str(ParsedDate(date.s)) ELSE Null)
    ELSE Null

ExtractPublishDate(seoData, f, fallbacks) ==
    LET rootProperty == OrPath(OrPath(fallbacks.publishDate, "date"), "")
    IN  NormalizeDate(ExtractWithPriority(seoData, f, "publishDate", "date", rootProperty, Undef))

ExtractModifiedDate(seoData, f, fallbacks) ==
    NormalizeDate(Or(GetSeo(seoData, "modifiedDate"),
                     GetRoot(f, OrPath(fallbacks.modifiedDate, "updated"))))

ExtractAuthor(seoData, f, fallbacks) ==
    LET rootProperty == OrPath(OrPath(fallbacks.author, "author.name"), "author")
        first == ExtractWithPriority(seoData, f, "author", "author", rootProperty, Undef)
        author == IF ~Truthy(first) /\ (fallbacks.author = "" \/ fallbacks.author = "author.name")
                  THEN GetRoot(f, "author")
                  ELSE first
    IN  IF author.t = "arr" THEN Str(JoinComma(author.a)) ELSE author

ExtractKeywords(seoData, f, fallbacks) ==
    LET rootProperty == OrPath(OrPath(fallbacks.keywords, "tags"), "")
        keywords == ExtractWithPriority(seoData, f, "keywords", "tags", rootProperty, Undef)
    IN  IF keywords.t = "arr" THEN keywords
        ELSE IF keywords.t = "str"
             THEN Arr([i \in 1..Len(SplitComma(keywords.s, <<>>)) |->
                          Trim(SplitComma(keywords.s, <<>>)[i])])
        ELSE Arr(<<>>)

ExtractWordCount(f) == IF ~f.contents.isBuffer THEN 0 ELSE f.contents.words

WordsPerMinute == 200

\* Math.ceil(wordCount / wordsPerMinute) + " min read"
CalculateReadingTime(wordCount) ==
    Str(<<ToString((wordCount + WordsPerMinute - 1) \div WordsPerMinute), " min read">>)

\* The object literal of extractMetadata; an exception in one of the field
\* extractors leaves extractMetadata by that exception.
MetadataFields(filePath, f, o) ==
    LET seoData == SeoData(f)
        hostnameStr == o.hostname
        wordCount == ExtractWordCount(f)
    IN  [title |-> ExtractTitle(seoData, f, o.defaults, o.fallbacks),
         description |-> ExtractDescription(seoData, f, o.defaults, o.fallbacks),
         image |-> ExtractImage(seoData, f, o.defaults, o.fallbacks, hostnameStr),
         canonicalURL |-> ExtractCanonicalURL(seoData, filePath, hostnameStr),
         robots |-> ExtractRobots(seoData, o.defaults),
         noIndex |-> ExtractNoIndex(seoData),
         type |-> ExtractContentType(seoData, f),
         publishDate |-> ExtractPublishDate(seoData, f, o.fallbacks),
         modifiedDate |-> ExtractModifiedDate(seoData, f, o.fallbacks),
         author |-> ExtractAuthor(seoData, f, o.fallbacks),
         keywords |-> ExtractKeywords(seoData, f, o.fallbacks),
         wordCount |-> wordCount,
         readingTime |-> IF wordCount # 0 THEN CalculateReadingTime(wordCount) ELSE Null,
         threw |-> FALSE]

MetaValueFields == {"title", "description", "image", "canonicalURL", "robots", "noIndex", "type",
                    "publishDate", "modifiedDate", "author", "keywords", "readingTime"}

\* what extractMetadata throws in place of returning a record
ThrownMetadata ==
    [title |-> Threw, description |-> Threw, image |-> Threw, canonicalURL |-> Threw,
     robots |-> Threw, noIndex |-> Threw, type |-> Threw, publishDate |-> Threw,
     modifiedDate |-> Threw, author |-> Threw, keywords |-> Threw, wordCount |-> 0,
     readingTime |-> Threw, threw |-> TRUE]

\* metadata: null, as optimizeHead returns it for a file it does not process
NullMetadata ==
    [title |-> Null, description |-> Null, image |-> Null, canonicalURL |-> Null,
     robots |-> Null, noIndex |-> Null, type |-> Null, publishDate |-> Null,
     modifiedDate |-> Null, author |-> Null, keywords |-> Null, wordCount |-> 0,
     readingTime |-> Null, threw |-> FALSE]

ExtractMetadata(filePath, f, o) ==
    LET m == MetadataFields(filePath, f, o)
    IN  IF \E k \in MetaValueFields : m[k].t = "throw" THEN ThrownMetadata ELSE m

---------------------------------------------------------------------------
(* Generators.  A generated tag is [kind, key, content]: kind is the        *)
(* property of the tag object that names it (name, httpEquiv, property).   *)

\* arr.join(",")
RECURSIVE JoinPlain(_)
JoinPlain(a) ==
    IF a = <<>> THEN <<>>
    ELSE IF Len(a) = 1 THEN a[1]
    ELSE a[1] \o <<",">> \o JoinPlain(Tail(a))

\* String(value), as escapeHtml and the template strings apply it
StringOf(v) ==
    CASE v.t \in {"str", "num", "bool"} -> v.s
      [] v.t = "arr" -> JoinPlain(v.a)
      [] v.t = "undef" -> <<"undefined">>
      [] v.t = "null" -> <<"null">>
      [] v.t = "date" -> v.s
      [] OTHER -> <<"[object Object]">>

GenTag(kind, key, v) == [kind |-> kind, key |-> key, content |-> StringOf(v)]

\* siteConfig = { hostname, ...social, ...jsonLd } of generateAllSeoContent
SiteConfig(o) == o.social

\* meta-generator.js generateRobotsDirective
GenerateRobotsDirective(md, siteConfig) ==
    IF Truthy(md.noIndex) THEN Str(<<"noindex,nofollow">>)
    ELSE IF Truthy(md.robots) THEN md.robots
    ELSE IF md.type = Str(<<"article">>) THEN Str(<<"index,follow">>)
    ELSE IF md.type = Str(<<"page">>) THEN Str(<<"index,follow">>)
    ELSE IF md.type = Str(<<"product">>) THEN Str(<<"index,follow">>)
    ELSE Or(siteConfig.defaultRobots, Str(<<"index,follow">>))

\* one tag when the condition holds, none otherwise
TagIf(cond, kind, key, v) == IF cond THEN <<GenTag(kind, key, v)>> ELSE <<>>

\* metadata.keywords.forEach(keyword => push({ [kind]: "article:tag", content: keyword }))
KeywordTags(md, kind) ==
    IF md.keywords.t = "arr"
    THEN [i \in 1..Len(md.keywords.a) |->
             [kind |-> kind, key |-> "article:tag", content |-> md.keywords.a[i]]]
    ELSE <<>>

AddArticleMetaTags(md) ==
    TagIf(Truthy(md.publishDate), "name", "article:published_time", md.publishDate)
    \o TagIf(Truthy(md.modifiedDate), "name", "article:modified_time", md.modifiedDate)
    \o TagIf(Truthy(md.author), "name", "article:author", md.author)
    \o KeywordTags(md, "name")

AddTechnicalMetaTags(md, siteConfig) ==
    TagIf(Truthy(siteConfig.language), "httpEquiv", "content-language", siteConfig.language)
    \o TagIf(Truthy(siteConfig.publisher), "name", "publisher", siteConfig.publisher)
    \o (IF md.type = Str(<<"article">>) THEN AddArticleMetaTags(md) ELSE <<>>)

DefaultViewport == Str(<<"width=device-width, initial-scale=1.0">>)

\* generateMetaTags(...).metaTags
GenerateMetaTags(md, siteConfig) ==
    TagIf(Truthy(md.description), "name", "description", md.description)
    \o TagIf(md.keywords.t = "arr" /\ Len(md.keywords.a) > 0, "name", "keywords",
             Str(JoinComma(md.keywords.a)))
    \o TagIf(Truthy(GenerateRobotsDirective(md, siteConfig)), "name", "robots",
             GenerateRobotsDirective(md, siteConfig))
    \o TagIf(Truthy(md.author), "name", "author", md.author)
    \o <<GenTag("name", "viewport", Or(siteConfig.viewport, DefaultViewport))>>
    \o AddTechnicalMetaTags(md, siteConfig)

\* generateMetaTags(...).linkTags
GenerateLinkTags(md) ==
    TagIf(Truthy(md.canonicalURL), "rel", "canonical", md.canonicalURL)

MapContentTypeToOGType(type) ==
    CASE type = Str(<<"article">>) -> Str(<<"article">>)
      [] type = Str(<<"product">>) -> Str(<<"product">>)
      [] type = Str(<<"profile">>) -> Str(<<"profile">>)
      [] type = Str(<<"page">>) -> Str(<<"website">>)
      [] type = Str(<<"local-business">>) -> Str(<<"business.business">>)
      [] OTHER -> Str(<<"website">>)

\* getImageType: the MIME type for the extension of the image URL
GetImageType(image) ==
    LET ext == IF image = <<>> THEN "" ELSE image[Len(image)]
    IN  CASE ext \in {".jpg", ".jpeg"} -> Str(<<"image/jpeg">>)
          [] ext = ".png" -> Str(<<"image/png">>)
          [] ext = ".gif" -> Str(<<"image/gif">>)
          [] ext = ".webp" -> Str(<<"image/webp">>)
          [] ext = ".svg" -> Str(<<"image/svg+xml">>)
          [] OTHER -> Null

AddImageMetadata(md, siteConfig) ==
    <<GenTag("property", "og:image:width", Num("1200")),
      GenTag("property", "og:image:height", Num("630")),
      GenTag("property", "og:image:alt", Or(md.title, Str(<<"Image">>)))>>
    \o TagIf(Truthy(GetImageType(md.image.s)), "property", "og:image:type",
             GetImageType(md.image.s))

AddCoreOpenGraphTags(md, siteConfig) ==
    TagIf(Truthy(md.title), "property", "og:title", md.title)
    \o <<GenTag("property", "og:type", MapContentTypeToOGType(md.type))>>
    \o TagIf(Truthy(md.canonicalURL), "property", "og:url", md.canonicalURL)
    \o TagIf(Truthy(md.description), "property", "og:description", md.description)
    \o (IF Truthy(md.image)
        THEN <<GenTag("property", "og:image", md.image)>> \o AddImageMetadata(md, siteConfig)
        ELSE <<>>)
    \o TagIf(Truthy(siteConfig.siteName), "property", "og:site_name", siteConfig.siteName)
    \o <<GenTag("property", "og:locale",
                Or(Or(siteConfig.locale, siteConfig.language), Str(<<"en_US">>)))>>

AddArticleOpenGraphTags(md) ==
    TagIf(Truthy(md.publishDate), "property", "article:published_time", md.publishDate)
    \o TagIf(Truthy(md.modifiedDate), "property", "article:modified_time", md.modifiedDate)
    \o TagIf(Truthy(md.author), "property", "article:author", md.author)
    \o KeywordTags(md, "property")
    \o TagIf(Truthy(md.readingTime), "property", "article:reading_time", md.readingTime)

\* generateOpenGraphTags(...).metaTags
GenerateOpenGraphTags(md, siteConfig) ==
    AddCoreOpenGraphTags(md, siteConfig)
    \o (IF md.type = Str(<<"article">>) THEN AddArticleOpenGraphTags(md) ELSE <<>>)
    \o TagIf(Truthy(siteConfig.facebookAppId), "property", "fb:app_id", siteConfig.facebookAppId)

TitleLimit == 70

\* s.lastIndexOf(" "), 0-based, -1 when there is none
RECURSIVE LastIndexOfSpace(_)
LastIndexOfSpace(s) ==
    IF s = <<>> THEN -1
    ELSE IF s[Len(s)] = " " THEN Len(s) - 1
    ELSE LastIndexOfSpace(SubSeq(s, 1, Len(s) - 1))

\* truncateTitle without the appended "..."
TruncateTitle_NoEllipsis(title, maxLength) ==
    IF Len(title) <= maxLength THEN title
    ELSE SubSeq(title, 1, maxLength)

\* twitter-generator.js truncateTitle; lastSpace > maxLength * 0.8 compared in tenths
TruncateTitle(title, maxLength) ==
    IF Len(title) <= maxLength THEN title
    ELSE LET truncated == SubSeq(title, 1, maxLength)
             lastSpace == LastIndexOfSpace(truncated)
         IN  IF lastSpace * 10 > maxLength * 8
             THEN SubSeq(title, 1, lastSpace) \o <<".", ".", ".">>
             ELSE truncated \o <<".", ".", ".">>

\* ensureTwitterHandle
EnsureTwitterHandle(handle) ==
    IF handle.t # "str" THEN StringOf(handle)
    ELSE LET cleaned == Trim(handle.s)
         IN  IF cleaned # <<>> /\ Head(cleaned) = "@" THEN cleaned ELSE <<"@">> \o cleaned

DetermineCardType(md, siteConfig) ==
    IF Truthy(siteConfig.twitterCardType) THEN siteConfig.twitterCardType
    ELSE IF Truthy(md.image) THEN Str(<<"summary_large_image">>)
    ELSE IF md.type = Str(<<"video">>) THEN Str(<<"player">>)
    ELSE IF md.type = Str(<<"app">>) THEN Str(<<"app">>)
    ELSE Str(<<"summary">>)

\* addCoreTwitterTags; descriptions of the model are shorter than the limit
\* of truncateDescription, which returns them unchanged
AddCoreTwitterTags(md, siteConfig) ==
    LET creator == Or(md.author, siteConfig.twitterCreator)
    IN  <<GenTag("name", "twitter:card", DetermineCardType(md, siteConfig))>>
        \o TagIf(Truthy(siteConfig.twitterSite), "name", "twitter:site",
                 Str(EnsureTwitterHandle(siteConfig.twitterSite)))
        \o TagIf(Truthy(creator), "name", "twitter:creator", Str(EnsureTwitterHandle(creator)))
        \o TagIf(Truthy(md.title), "name", "twitter:title",
                 Str(TruncateTitle(StringOf(md.title), TitleLimit)))
        \o TagIf(Truthy(md.description), "name", "twitter:description", md.description)

\* addSummaryLargeImageTags / addSummaryTags / the image of addPlayerTags
AddTwitterImageTags(md, cardType) ==
    IF ~Truthy(md.image) THEN <<>>
    ELSE IF cardType = Str(<<"app">>) THEN <<>>
    ELSE IF cardType = Str(<<"player">>) THEN <<GenTag("name", "twitter:image", md.image)>>
    ELSE <<GenTag("name", "twitter:image", md.image),
           GenTag("name", "twitter:image:alt", Or(md.title, Str(<<"Image">>)))>>

\* generateTwitterCardTags(...).metaTags
GenerateTwitterCardTags(md, siteConfig) ==
    AddCoreTwitterTags(md, siteConfig)
    \o AddTwitterImageTags(md, DetermineCardType(md, siteConfig))

\* generateJsonLd(...).html with its script tags stripped: the JSON text,
\* which is never empty because a content schema is always generated
JsonLdContent(md, siteConfig, filePath) ==
    <<"{">> \o StringOf(md.type) \o <<":">> \o StringOf(md.title) \o <<"}">>

\* generateAllSeoContent
GenerateAllSeoContent(md, o, filePath) ==
    [metaTags |-> GenerateMetaTags(md, SiteConfig(o)),
     linkTags |-> GenerateLinkTags(md),
     openGraph |-> GenerateOpenGraphTags(md, SiteConfig(o)),
     twitter |-> GenerateTwitterCardTags(md, SiteConfig(o)),
     jsonLd |-> JsonLdContent(md, SiteConfig(o), filePath)]

---------------------------------------------------------------------------
(* html-injector.js.  An element of the head is [tag, kind, key, val]:      *)
(*   title:  val is its text                                               *)
(*   meta:   kind is the naming attribute (name, property, http-equiv,     *)
(*           charset), key its value, val the content attribute            *)
(*   link:   kind "rel", key the rel value, val the href                   *)
(*   script: kind "type", key the type value, val the script text          *)
(* The parser always supplies a head element, so the branches that create  *)
(* one are not taken.                                                      *)

Elem(tag, kind, key, val) == [tag |-> tag, kind |-> kind, key |-> key, val |-> val]

\* positions of the elements of h that satisfy Test
Positions(h, Test(_)) == {i \in 1..Len(h) : Test(h[i])}

SetMax(S) == CHOOSE x \in S : \A y \in S : y <= x

\* h with element e inserted after position i (0: at the start)
InsertAfter(h, i, e) == SubSeq(h, 1, i) \o <<e>> \o SubSeq(h, i + 1, Len(h))

\* updateTitle
UpdateTitle(h, title) ==
    LET IsTitle(e) == e.tag = "title"
    IN  IF Positions(h, IsTitle) # {}
        THEN [i \in 1..Len(h) |-> IF IsTitle(h[i]) THEN [h[i] EXCEPT !.val = title] ELSE h[i]]
        ELSE InsertAfter(h, 0, Elem("title", "", "", title))

\* updateMetaTag(html, name, content, type)
UpdateMetaTag(h, name, content, type) ==
    LET Existing(e) == e.tag = "meta" /\ e.kind = type /\ e.key = name
        IsMeta(e) == e.tag = "meta"
        IsTitle(e) == e.tag = "title"
        metaTag == Elem("meta", type, name, content)
    IN  IF Positions(h, Existing) # {}
        THEN [i \in 1..Len(h) |-> IF Existing(h[i]) THEN [h[i] EXCEPT !.val = content] ELSE h[i]]
        ELSE IF Positions(h, IsMeta) # {}
        THEN InsertAfter(h, SetMax(Positions(h, IsMeta)), metaTag)
        ELSE IF Positions(h, IsTitle) # {}
        THEN InsertAfter(h, SetMax(Positions(h, IsTitle)), metaTag)
        ELSE InsertAfter(h, 0, metaTag)

\* updateLinkTag(html, rel, href)
UpdateLinkTag(h, rel, href) ==
    LET Existing(e) == e.tag = "link" /\ e.key = rel
        IsLink(e) == e.tag = "link"
        IsMeta(e) == e.tag = "meta"
        linkTag == Elem("link", "rel", rel, href)
    IN  IF Positions(h, Existing) # {}
        THEN [i \in 1..Len(h) |-> IF Existing(h[i]) THEN linkTag ELSE h[i]]
        ELSE IF Positions(h, IsLink) # {}
        THEN InsertAfter(h, SetMax(Positions(h, IsLink)), linkTag)
        ELSE IF Positions(h, IsMeta) # {}
        THEN InsertAfter(h, SetMax(Positions(h, IsMeta)), linkTag)
        ELSE InsertAfter(h, Len(h), linkTag)

\* addScript(html, scriptContent, type, position)
AddScript(h, scriptContent, type, position) ==
    IF position = "end"
    THEN InsertAfter(h, Len(h), Elem("script", "type", type, scriptContent))
    ELSE InsertAfter(h, 0, Elem("script", "type", type, scriptContent))

\* defaultTags, ogTags and twitterTags of removeExistingMetaTags
TagsToRemove ==
    {"description", "keywords", "robots", "canonical",
     "og:title", "og:description", "og:image", "og:url", "og:type", "og:site_name",
     "twitter:card", "twitter:title", "twitter:description", "twitter:image",
     "twitter:site", "twitter:creator"}

\* removeExistingMetaTags that leaves the JSON-LD scripts in place
RemoveExistingMetaTags_KeepScripts(h) ==
    LET Keep(e) ==
            /\ ~(e.tag = "meta" /\ e.kind \in {"name", "property"} /\ e.key \in TagsToRemove)
            /\ ~(e.tag = "link" /\ e.key = "canonical")
    IN  SelectSeq(h, Keep)

\* removeExistingMetaTags(html)
RemoveExistingMetaTags(h) ==
    LET Keep(e) ==
            /\ ~(e.tag = "meta" /\ e.kind \in {"name", "property"} /\ e.key \in TagsToRemove)
            /\ ~(e.tag = "script" /\ e.key = "application/ld+json")
            /\ ~(e.tag = "link" /\ e.key = "canonical")
    IN  SelectSeq(h, Keep)

---------------------------------------------------------------------------
(* head-optimizer.js *)

CriticalTags == {"viewport", "charset", "description", "robots"}

\* getCriticalMetaTags
GetCriticalMetaTags(metaTags) ==
    LET Critical(t) == t.key \in CriticalTags IN SelectSeq(metaTags, Critical)

\* getOtherMetaTags
GetOtherMetaTags(metaTags) ==
    LET Other(t) == t.key \notin CriticalTags IN SelectSeq(metaTags, Other)

\* for (const tag of critical) { name -> updateMetaTag(.., 'name'); httpEquiv -> (.., 'http-equiv') }
RECURSIVE InjectCritical(_, _)
InjectCritical(h, tags) ==
    IF tags = <<>> THEN h
    ELSE LET t == Head(tags)
         IN  InjectCritical(
                 IF t.kind = "name" THEN UpdateMetaTag(h, t.key, t.content, "name")
                 ELSE IF t.kind = "httpEquiv" THEN UpdateMetaTag(h, t.key, t.content, "http-equiv")
                 ELSE h,
                 Tail(tags))

\* for (const link of linkTags) updateLinkTag(..)
RECURSIVE InjectLinks(_, _)
InjectLinks(h, tags) ==
    IF tags = <<>> THEN h
    ELSE InjectLinks(UpdateLinkTag(h, Head(tags).key, Head(tags).content), Tail(tags))

\* for (const tag of other) { if (tag.name) updateMetaTag(.., 'name') }
RECURSIVE InjectOther(_, _)
InjectOther(h, tags) ==
    IF tags = <<>> THEN h
    ELSE LET t == Head(tags)
         IN  InjectOther(IF t.kind = "name" THEN UpdateMetaTag(h, t.key, t.content, "name") ELSE h,
                         Tail(tags))

\* for (const tag of tags) updateMetaTag(.., tag[attr], tag.content, type)
RECURSIVE InjectAll(_, _, _)
InjectAll(h, tags, type) ==
    IF tags = <<>> THEN h
    ELSE InjectAll(UpdateMetaTag(h, Head(tags).key, Head(tags).content, type), Tail(tags), type)

\* injectSeoContent(html, metadata, generated, { cleanExisting })
InjectSeoContent(h, md, generated, cleanExisting) ==
    LET h1 == IF cleanExisting THEN RemoveExistingMetaTags(h) ELSE h
        h2 == IF Truthy(md.title) THEN UpdateTitle(h1, StringOf(md.title)) ELSE h1
        h3 == InjectCritical(h2, GetCriticalMetaTags(generated.metaTags))
        h4 == InjectLinks(h3, generated.linkTags)
        h5 == InjectOther(h4, GetOtherMetaTags(generated.metaTags))
        h6 == InjectAll(h5, generated.openGraph, "property")
        h7 == InjectAll(h6, generated.twitter, "name")
    IN  IF generated.jsonLd # <<>>
        THEN AddScript(h7, generated.jsonLd, "application/ld+json", "end")
        ELSE h7

---------------------------------------------------------------------------
(* Inputs of the resolver: one document whose override block, card block   *)
(* and root level each carry a value for one field, under direct options   *)
(* (no fallbacks) or the fallbacks buildConfig installs.                   *)

Hostname == <<"https:", "/", "/", "example.com">>

NoFallbacks ==
    [title |-> "", description |-> "", image |-> "", author |-> "",
     publishDate |-> "", modifiedDate |-> "", keywords |-> ""]

\* config.fallbacks of buildConfig when the plugin options give none
PluginFallbacks ==
    [title |-> "title", description |-> "excerpt", image |-> "featured_image", author |-> "author",
     publishDate |-> "", modifiedDate |-> "", keywords |-> ""]

NoDefaults == [title |-> Undef, description |-> Undef, socialImage |-> Undef, robots |-> Undef]

NoSocial ==
    [viewport |-> Undef, language |-> Undef, publisher |-> Undef, siteName |-> Undef,
     locale |-> Undef, facebookAppId |-> Undef, twitterSite |-> Undef, twitterCreator |-> Undef,
     twitterCardType |-> Undef, defaultRobots |-> Undef]

BaseOptions ==
    [hostname |-> Hostname, defaults |-> NoDefaults, fallbacks |-> NoFallbacks,
     social |-> NoSocial, cleanExisting |-> TRUE, generateSitemap |-> TRUE]

BodyContents ==
    [defined |-> TRUE, isBuffer |-> TRUE, text |-> <<"B", "o", "d", "y">>, words |-> 1]

BaseFile ==
    [path |-> <<"blog", "/", "post", ".html">>, seoKind |-> "obj", seo |-> EmptySeo,
     cardKind |-> "obj", card |-> EmptyCard, root |-> EmptyRoot, contents |-> BodyContents]

ChainFields == {"title", "description", "image", "publishDate", "modifiedDate", "author",
                "keywords", "type"}

\* the property that carries a chain field in each block
SeoKey(field) == field

CardKey(field) ==
    CASE field = "description" -> "excerpt"
      [] field = "publishDate" -> "date"
      [] field = "keywords" -> "tags"
      [] field = "type" -> "tags"
      [] OTHER -> field

RootKey(field) ==
    CASE field = "description" -> "excerpt"
      [] field = "image" -> "featured_image"
      [] field = "publishDate" -> "date"
      [] field = "modifiedDate" -> "updated"
      [] field = "keywords" -> "tags"
      [] field = "type" -> "sku"
      [] OTHER -> field

DefaultKey(field) ==
    CASE field = "title" -> "title"
      [] field = "description" -> "description"
      [] field = "image" -> "socialImage"
      [] OTHER -> ""

\* values a source may hold for a field; who names the source (S, C, R, D)
ValuesFor(field, who) ==
    CASE field \in {"title", "description"} ->
            {Undef, Null, Str(<<>>), Str(<<who>>), Num("7")}
      [] field = "image" ->
            {Undef, Str(<<>>), Str(<<"/", who, ".jpg">>),
             Str(<<"https:", "/", "/", "cdn", "/", who, ".png">>), Num("7")}
      [] field \in {"publishDate", "modifiedDate"} ->
            {Undef, Str(<<>>), Str(<<"garbage">>), InvalidDate,
             IF who = "S" THEN Str(<<"2025-06-02">>)
             ELSE IF who = "C" THEN Str(<<"2025-02-02">>)
             ELSE DateObj("2025-01-01T00:00:00.000Z")}
      [] field = "author" ->
            {Undef, Str(<<>>), Str(<<who>>), Arr(<<<<who>>, <<"Z">>>>), Obj(<<who>>)}
      [] field = "keywords" ->
            {Undef, Str(<<>>), Str(<<who, ",", " ", "k">>), Arr(<<<<who>>, <<"k">>>>), Num("0")}
      [] field = "type" ->
            IF who = "S" THEN {Undef, Str(<<>>), Str(<<"article">>), Str(<<"local-business">>)}
            ELSE {Undef, Str(<<who>>)}
      [] OTHER -> {Undef}

\* a card block whose only property is the one of field
CardWith(field, v) ==
    IF field = "type" THEN [EmptyCard EXCEPT !["tags"] = v, !["date"] = v]
    ELSE [EmptyCard EXCEPT ![CardKey(field)] = v]

RootWith(field, v) == [EmptyRoot EXCEPT ![RootKey(field)] = v]

FileWith(field, vs, vc, vr) ==
    [BaseFile EXCEPT !.seo = [EmptySeo EXCEPT ![SeoKey(field)] = vs],
                     !.card = CardWith(field, vc),
                     !.root = RootWith(field, vr)]

DefaultsWith(field, vd) ==
    IF DefaultKey(field) = "" THEN NoDefaults ELSE [NoDefaults EXCEPT ![DefaultKey(field)] = vd]

DefaultValuesFor(field) ==
    CASE field \in {"title", "description"} -> {Undef, Str(<<"D">>)}
      [] field = "image" -> {Undef, Str(<<"/", "D", ".jpg">>)}
      [] OTHER -> {Undef}

ChainInputsOf(field) ==
    {[file |-> FileWith(field, vs, vc, vr),
      options |-> [BaseOptions EXCEPT !.defaults = DefaultsWith(field, vd), !.fallbacks = fb]] :
        vs \in ValuesFor(field, "S"), vc \in ValuesFor(field, "C"), vr \in ValuesFor(field, "R"),
        vd \in DefaultValuesFor(field), fb \in {NoFallbacks, PluginFallbacks}}

ChainInputs == UNION {ChainInputsOf(field) : field \in ChainFields}

\* documents that differ in what decides the robots directive
RobotsInputs ==
    {[file |-> [BaseFile EXCEPT !.seo = [EmptySeo EXCEPT !["noIndex"] = ni, !["robots"] = rb,
                                                         !["type"] = ty]],
      options |-> [BaseOptions EXCEPT !.defaults = [NoDefaults EXCEPT !.robots = dr],
                                      !.social = [NoSocial EXCEPT !.defaultRobots = sr],
                                      !.generateSitemap = gs]] :
        ni \in {Undef, Bool("true"), Bool("false")},
        rb \in {Undef, Str(<<>>), Str(<<"noindex,follow">>)},
        ty \in {Undef, Str(<<"article">>), Str(<<"product">>), Str(<<"local-business">>)},
        dr \in {Undef, Str(<<"noarchive">>)},
        sr \in {Undef, Str(<<"nosnippet">>)},
        gs \in BOOLEAN}

\* documents whose seo or card value is not an object
BlockKindInputs ==
    {[file |-> [FileWith("title", Str(<<"S">>), Str(<<"C">>), Str(<<"R">>))
                    EXCEPT !.seoKind = sk, !.cardKind = ck],
      options |-> BaseOptions] :
        sk \in {"obj", "undef", "null", "str", "num"}, ck \in {"obj", "undef", "null", "str", "num"}}

\* keywords values: the list as a string and as an array, and the falsy values
KeywordValues ==
    {Undef, Null, Bool("false"), Num("0"), Str(<<>>),
     Str(<<"a", ",", " ", "b", ",", " ", "c">>), Arr(<<<<"a">>, <<"b">>, <<"c">>>>)}

\* documents whose keywords come from the seo block or from the root-level tags
KeywordInputs ==
    {[file |-> [BaseFile EXCEPT !.seo = [EmptySeo EXCEPT !["keywords"] = vs],
                                !.root = [EmptyRoot EXCEPT !["tags"] = vr]],
      options |-> BaseOptions] : vs \in KeywordValues, vr \in KeywordValues}

\* absolute hostnames, with and without a trailing slash
Hostnames ==
    {Hostname, Hostname \o <<"/">>, <<"http:", "/", "/", "localhost:3000">>}

\* document paths: an index page, a nested index page, a doubled slash, .htm
DocumentPaths ==
    {<<"index", ".html">>, <<"blog", "/", "index", ".html">>, <<"about", ".html">>,
     <<"a", "/", "/", "b", ".htm">>, <<"blog", "/", "post", ".html">>}

\* documents that differ in path, hostname and explicit canonical URL
PathInputs ==
    {[file |-> [BaseFile EXCEPT !.path = fp,
                                !.seo = [EmptySeo EXCEPT !["canonicalURL"] = cu]],
      options |-> [BaseOptions EXCEPT !.hostname = hn]] :
        fp \in DocumentPaths, hn \in Hostnames,
        cu \in {Undef, Str(<<"https:", "/", "/", "other.org", "/", "x">>)}}

MaxTitleLen == 74

\* a title of len characters with spaces at the given places (from 1)
TitleOf(len, spaces) == [i \in 1..len |-> IF i \in spaces THEN " " ELSE "x"]

\* places of the spaces: none, early, around 80% of the limit, at the limit
SpacePlaces == {{}, {10}, {56}, {57}, {58}, {20, 60}, {57, 71}, {70}, {71}}

\* documents whose title is shorter than, as long as and longer than the
\* limit of the Twitter title
TitleInputs ==
    {[file |-> [BaseFile EXCEPT !.seo = [EmptySeo EXCEPT !["title"] = Str(TitleOf(len, sp))]],
      options |-> BaseOptions] :
        len \in {3, 60} \cup (69..MaxTitleLen), sp \in SpacePlaces}

\* articles with no, one and two keywords, on a site with and without a
\* configured language
TagInputs ==
    {[file |-> [BaseFile EXCEPT !.seo = [EmptySeo EXCEPT !["type"] = Str(<<"article">>),
                                                          !["keywords"] = Arr(kw)]],
      options |-> [BaseOptions EXCEPT !.social = [NoSocial EXCEPT !.language = lang]]] :
        kw \in {<<>>, <<<<"a">>>>, <<<<"a">>, <<"b">>>>}, lang \in {Undef, Str(<<"en">>)}}

ResolverInputs ==
    ChainInputs \cup RobotsInputs \cup BlockKindInputs \cup KeywordInputs \cup PathInputs
    \cup TitleInputs \cup TagInputs

---------------------------------------------------------------------------
(* State outside a specification's own part *)

NoGenerated ==
    [metaTags |-> <<>>, linkTags |-> <<>>, openGraph |-> <<>>, twitter |-> <<>>, jsonLd |-> <<>>]

\* the head of the fixture documents: <head><title>..</title></head>
PlainHead == <<Elem("title", "", "", <<"O", "l", "d">>)>>

ResolveIdle ==
    /\ fm = BaseFile
    /\ opts = BaseOptions
    /\ metadata = ThrownMetadata
    /\ gen = NoGenerated
    /\ rpc = "idle"

HeadIdle ==
    /\ html = PlainHead
    /\ prevHtml = PlainHead
    /\ builds = 0
    /\ sameRuns = 0
    /\ injected = {}

BatchIdle ==
    /\ fileList = <<>>
    /\ batchSize = 0
    /\ bi = 0
    /\ task = <<>>
    /\ results = <<>>
    /\ bpc = "idle"
    /\ waveOf = <<>>
    /\ wave = 0

PluginIdle ==
    /\ pluginOptions = Undef
    /\ siteMetadata = Undef
    /\ config = Undef
    /\ sitemap = Undef
    /\ robotsTxt = Undef
    /\ ppc = "idle"
    /\ doneArg = "none"
    /\ runs = 0
    /\ doneCalls = 0
    /\ siteMetadataCache = Null

---------------------------------------------------------------------------
(* optimizeHead on one document (head-optimizer.js 45-100), in the steps   *)
(* its awaits cut it into.                                                 *)

\* isHtmlFile: /\.html?$/i on the path
IsHtmlFile(filePath) ==
    Len(filePath) > 0 /\ filePath[Len(filePath)] \in {".html", ".htm"}

\* truncateTitle and truncateDescription of the Twitter generator: a truthy
\* title or description without a length (a number) fails the length test
\* and title.substring is not a function, a TypeError
GeneratorThrows(md) ==
    \/ Truthy(md.title) /\ md.title.t \notin {"str", "arr"}
    \/ Truthy(md.description) /\ md.description.t \notin {"str", "arr"}

\* optimizeHead up to its first await: the non-HTML skip, extractMetadata, the
\* noIndex test and generateAllSeoContent.  st is where the call stands:
\* "threw" (the promise is rejected: extractMetadata threw, or contents is
\* undefined and contents.toString() threw), "skipped" (it returns the
\* contents untouched) or "generated" (it goes on to injectSeoContent).
OptimizeHeadSync(f, o) ==
    IF ~IsHtmlFile(f.path) \/ ~f.contents.isBuffer
    THEN IF f.contents.defined
         THEN [st |-> "skipped", md |-> NullMetadata, hasMd |-> FALSE, gen |-> NoGenerated]
         ELSE [st |-> "threw", md |-> ThrownMetadata, hasMd |-> FALSE, gen |-> NoGenerated]
    ELSE LET md == ExtractMetadata(f.path, f, o)
         IN  IF md.threw
             THEN [st |-> "threw", md |-> md, hasMd |-> FALSE, gen |-> NoGenerated]
             ELSE IF Truthy(md.noIndex) /\ ~o.generateSitemap
             THEN [st |-> "skipped", md |-> md, hasMd |-> TRUE, gen |-> NoGenerated]
             ELSE IF GeneratorThrows(md)
             THEN [st |-> "threw", md |-> md, hasMd |-> FALSE, gen |-> NoGenerated]
             ELSE [st |-> "generated", md |-> md, hasMd |-> TRUE,
                   gen |-> GenerateAllSeoContent(md, o, f.path)]

OptimizeHeadStart ==
    /\ rpc = "start"
    /\ LET r == OptimizeHeadSync(fm, opts)
       IN  /\ metadata' = r.md
           /\ gen' = r.gen
           /\ rpc' = r.st
    /\ UNCHANGED <<fm, opts, headVars, batchVars, pluginVars>>

\* the <<attribute, key>> pairs of the meta tags injectSeoContent upserts
InjectedKeys(g) ==
    {<<"name", g.metaTags[i].key>> : i \in {j \in 1..Len(g.metaTags) : g.metaTags[j].kind = "name"}}
    \cup {<<"http-equiv", g.metaTags[i].key>> :
              i \in {j \in 1..Len(g.metaTags) :
                         g.metaTags[j].kind = "httpEquiv" /\ g.metaTags[j].key \in CriticalTags}}
    \cup {<<"property", g.openGraph[i].key>> : i \in 1..Len(g.openGraph)}
    \cup {<<"name", g.twitter[i].key>> : i \in 1..Len(g.twitter)}

\* after the first await: injectSeoContent on the document's html
OptimizeHeadInject ==
    /\ rpc = "generated"
    /\ rpc' = "injected"
    /\ prevHtml' = html
    /\ html' = InjectSeoContent(html, metadata, gen, opts.cleanExisting)
    /\ builds' = builds + 1
    /\ sameRuns' = sameRuns + 1
    /\ injected' = injected \cup InjectedKeys(gen)
    /\ UNCHANGED <<fm, opts, metadata, gen, batchVars, pluginVars>>

InitResolve ==
    /\ \E in \in ResolverInputs : fm = in.file /\ opts = in.options
    /\ metadata = ThrownMetadata
    /\ gen = NoGenerated
    /\ rpc = "start"
    /\ HeadIdle
    /\ BatchIdle
    /\ PluginIdle

NextResolve == OptimizeHeadStart \/ OptimizeHeadInject

SpecResolve == InitResolve /\ [][NextResolve]_vars

---------------------------------------------------------------------------
(* Properties of the resolver and of the robots directive *)

Resolved == rpc \in {"generated", "skipped", "injected"}

\* the value the override block holds for a chain field
SeoValue(field) == SeoData(fm)[SeoKey(field)]

\* the value the card block holds for a chain field
CardValue(field) == GetCard(fm, CardKey(field))

\* the record extractMetadata gives for the document with other card and root blocks
ResolvedWith(card, root) ==
    ExtractMetadata(fm.path, [fm EXCEPT !.card = card, !.root = root], opts)

\* content of the robots meta tag among the generated meta tags, <<>> if none
RobotsTagOf(g) ==
    LET IsRobots(t) == t.kind = "name" /\ t.key = "robots"
    IN  IF SelectSeq(g.metaTags, IsRobots) = <<>> THEN <<>>
        ELSE SelectSeq(g.metaTags, IsRobots)[1].content

\* C5: once extractMetadata has run, for every chain-resolved field that the
\* override block defines (a value other than undefined and null), the
\* resolved value is the one obtained with any other card block and any
\* other root-level value of that field.
C5_PriorityLaw ==
    rpc # "start" =>
        \A field \in ChainFields :
            Defined(SeoValue(field)) =>
                \A vc \in ValuesFor(field, "C"), vr \in ValuesFor(field, "R") :
                    ResolvedWith(CardWith(field, vc), RootWith(field, vr))[field] = metadata[field]

\* C6: extractMetadata returns a record, and never throws, for every
\* frontmatter tree, wrong-typed values included.
C6_ResolverNeverRaises == rpc # "threw"

\* C8: when the override block does not define a chain field and the card
\* block holds a value for it, the resolved value does not depend on the
\* root-level field; when only the root level holds a value, it does not
\* depend on the site default.
C8_FirstMatchWins ==
    rpc # "start" =>
        \A field \in ChainFields \ {"type"} :
            /\ (~Defined(SeoValue(field)) /\ Truthy(CardValue(field))) =>
                  \A vr \in ValuesFor(field, "R") :
                      ResolvedWith(fm.card, RootWith(field, vr))[field] = metadata[field]
            /\ (~Defined(SeoValue(field)) /\ ~Defined(CardValue(field))
                    /\ Truthy(fm.root[RootKey(field)])) =>
                  \A vd \in DefaultValuesFor(field) :
                      ExtractMetadata(fm.path, fm,
                          [opts EXCEPT !.defaults = DefaultsWith(field, vd)])[field] = metadata[field]

\* C9: when the override block sets noIndex, the robots directive is
\* "noindex,nofollow" in the resolved metadata record and in the robots
\* meta tag generated from it.
C9_NoIndexForcesRobots ==
    (Resolved /\ Truthy(SeoData(fm)["noIndex"])) =>
        /\ metadata.robots = Str(<<"noindex,nofollow">>)
        /\ (rpc # "skipped" => RobotsTagOf(gen) = <<"noindex,nofollow">>)

\* C10: without noIndex and without an explicit robots string the robots
\* tag is "index,follow" for article, page and product whatever the site
\* configures, the site-configured default for the other content types, and
\* "index,follow" when no default is configured.
C10_RobotsFallbackOrder ==
    (rpc \in {"generated", "injected"} /\ ~Truthy(SeoData(fm)["noIndex"])
        /\ ~Truthy(SeoData(fm)["robots"])) =>
        IF metadata.type \in {Str(<<"article">>), Str(<<"page">>), Str(<<"product">>)}
        THEN RobotsTagOf(gen) = <<"index,follow">>
        ELSE IF Truthy(opts.defaults.robots) \/ Truthy(opts.social.defaultRobots)
        THEN RobotsTagOf(gen) \in {StringOf(opts.defaults.robots), StringOf(opts.social.defaultRobots)}
                /\ RobotsTagOf(gen) # <<"undefined">>
        ELSE RobotsTagOf(gen) = <<"index,follow">>

---------------------------------------------------------------------------
(* Repeated builds of one document: the plugin runs again on the html it   *)
(* produced, with the same metadata or after the document was edited.      *)

MaxBuilds == 3

Meta(kind, key, val) == Elem("meta", kind, key, val)

\* heads of source documents; the last one holds tags of the cleaned set
\* twice, no head holds twice a tag the cleaning leaves in place
SourceHeads ==
    {PlainHead,
     <<>>,
     <<Meta("charset", "utf-8", <<>>), Elem("title", "", "", <<"O">>),
       Meta("name", "viewport", <<"width=device-width">>),
       Elem("link", "rel", "stylesheet", <<"/", "site.css">>)>>,
     <<Elem("title", "", "", <<"O">>), Meta("name", "description", <<"o", "l", "d">>),
       Meta("name", "author", <<"Old">>),
       Elem("link", "rel", "canonical", <<"https:", "/", "/", "old">>),
       Elem("script", "type", "application/ld+json", <<"{", "}">>)>>,
     <<Elem("link", "rel", "icon", <<"/", "favicon.ico">>),
       Elem("script", "type", "text/javascript", <<"x">>)>>,
     <<Meta("name", "description", <<"o", "n", "e">>), Elem("title", "", "", <<"O">>),
       Meta("name", "description", <<"t", "w", "o">>),
       Meta("property", "og:title", <<"O">>), Meta("property", "og:title", <<"P">>),
       Elem("link", "rel", "canonical", <<"https:", "/", "/", "a">>),
       Elem("link", "rel", "canonical", <<"https:", "/", "/", "b">>),
       Elem("script", "type", "application/ld+json", <<"{", "a", "}">>),
       Elem("script", "type", "application/ld+json", <<"{", "b", "}">>)>>}

\* documents that differ in the tags their metadata produces
HeadFiles ==
    {[BaseFile EXCEPT !.seo = [EmptySeo EXCEPT !["title"] = Str(<<"T">>)]],
     [BaseFile EXCEPT !.seo = [EmptySeo EXCEPT !["title"] = Str(<<"T">>),
                                               !["description"] = Str(<<"d">>),
                                               !["author"] = Str(<<"A">>)]],
     [BaseFile EXCEPT !.seo = [EmptySeo EXCEPT !["title"] = Str(<<"T">>),
                                               !["image"] = Str(<<"/", "i", ".jpg">>),
                                               !["keywords"] = Arr(<<<<"k">>, <<"l">>>>)]],
     [BaseFile EXCEPT !.seo = [EmptySeo EXCEPT !["title"] = Str(<<"T">>),
                                               !["author"] = Str(<<"A">>),
                                               !["keywords"] = Arr(<<<<"k">>, <<"l">>>>)],
                      !.root = [EmptyRoot EXCEPT !["date"] = Str(<<"2025-01-01">>)]]}

\* options as buildConfig passes them (siteName and locale set) and bare
HeadOptions ==
    {[BaseOptions EXCEPT !.cleanExisting = ce, !.social = so] :
        ce \in BOOLEAN,
        so \in {NoSocial,
                [NoSocial EXCEPT !.siteName = Str(<<"Site">>), !.locale = Str(<<"en_US">>),
                                 !.twitterSite = Str(<<"@", "site">>)]}}

\* the plugin runs again on its own output, the document unchanged
Rebuild ==
    /\ rpc = "injected"
    /\ builds < MaxBuilds
    /\ rpc' = "generated"
    /\ UNCHANGED <<fm, opts, metadata, gen, headVars, batchVars, pluginVars>>

\* the author edits the frontmatter, and the plugin runs again on its output
EditAndRebuild ==
    /\ rpc = "injected"
    /\ builds < MaxBuilds
    /\ \E f \in HeadFiles \ {fm} :
          /\ fm' = f
          /\ metadata' = ExtractMetadata(f.path, f, opts)
          /\ gen' = GenerateAllSeoContent(ExtractMetadata(f.path, f, opts), opts, f.path)
    /\ rpc' = "generated"
    /\ sameRuns' = 0
    /\ UNCHANGED <<opts, html, prevHtml, builds, injected, batchVars, pluginVars>>

InitHead ==
    /\ fm \in HeadFiles
    /\ opts \in HeadOptions
    /\ metadata = ExtractMetadata(fm.path, fm, opts)
    /\ gen = GenerateAllSeoContent(metadata, opts, fm.path)
    /\ rpc = "generated"
    /\ html \in SourceHeads
    /\ prevHtml = html
    /\ builds = 0
    /\ sameRuns = 0
    /\ injected = {}
    /\ BatchIdle
    /\ PluginIdle

NextHead == OptimizeHeadInject \/ Rebuild \/ EditAndRebuild

SpecHead == InitHead /\ [][NextHead]_vars

\* number of elements of the head that satisfy Test
CountOf(h, Test(_)) == Cardinality(Positions(h, Test))

\* C1: with cleaning enabled, the second run of the pipeline on the output
\* of a first run, with the same metadata and site configuration, yields
\* html identical to the output of the first run.
C1_Idempotent ==
    (rpc = "injected" /\ opts.cleanExisting /\ sameRuns = 2) => html = prevHtml

C7_NoStaleTags ==
    (rpc = "injected" /\ opts.cleanExisting) =>
        \A k \in injected \ InjectedKeys(gen) :
            LET Same(e) == e.tag = "meta" /\ e.kind = k[1] /\ e.key = k[2]
            IN  CountOf(html, Same) = 0

---------------------------------------------------------------------------
(* batchOptimizeHeads (head-optimizer.js 250-290): the documents run in    *)
(* waves of batchSize; a wave's documents are started together by          *)
(* batch.map, each runs on in its own continuation, and Promise.all is     *)
(* awaited before the results are collected and the next wave starts.      *)

MaxDocs == 3
MaxBatch == 2

\* the steps a loop index that moves backwards is followed for
MaxBackSteps == 3

DefaultBatchSize == 10

\* options.batchSize || 10; 0 stands for an option left unset
BatchSizeOf(b) == IF b = 0 THEN DefaultBatchSize ELSE b

BatchSizeOptions == 0..MaxBatch

\* contents that is a string, and a file object without contents
StringContents == [BodyContents EXCEPT !.isBuffer = FALSE]
NoContents == [BodyContents EXCEPT !.isBuffer = FALSE, !.defined = FALSE]

\* a page, a page whose frontmatter makes extractMetadata throw (a numeric
\* image), a stylesheet, a page whose contents is a string and a page
\* without contents
BatchFiles ==
    {[BaseFile EXCEPT !.seo = [EmptySeo EXCEPT !["title"] = Str(<<"T">>)]],
     [BaseFile EXCEPT !.seo = [EmptySeo EXCEPT !["image"] = Num("7")]],
     [BaseFile EXCEPT !.path = <<"css", "/", "site", ".css">>],
     [BaseFile EXCEPT !.contents = StringContents],
     [BaseFile EXCEPT !.contents = NoContents]}

FileLists == UNION {[1..n -> BatchFiles] : n \in 0..MaxDocs}

\* the documents of the wave that starts at index i: fileList.slice(i, i + batchSize)
\* an index of Array.prototype.slice: a negative one counts from the end,
\* and both ends are clamped to the array
SliceIndex(x, len) ==
    IF x < 0 THEN (IF len + x < 0 THEN 0 ELSE len + x)
    ELSE IF x > len THEN len ELSE x

\* fileList.slice(i, i + batchSize), as places in the list (from 1)
Batch(i) ==
    {d \in 1..Len(fileList) :
        /\ SliceIndex(i, Len(fileList)) < d
        /\ d <= SliceIndex(i + batchSize, Len(fileList))}

Settled(d) == task[d].st \in {"ok", "error"}

\* a document whose pipeline has started and has not settled
InFlight(d) == task[d].st \in {"threw", "skipped", "generated", "injected"}

\* await Promise.all left out: the wave is collected without waiting
AllSettled_NotAwaited(i) == TRUE

\* await Promise.all(batchPromises): every promise of the wave is fulfilled
AllSettled(i) == \A d \in Batch(i) : Settled(d)

\* Promise.all rejects as soon as one of its promises is rejected
AnyRejected(i) == \E d \in Batch(i) : task[d].st = "rejected"

\* the callback without its catch block: its promise is rejected
CallbackOutcome_NoCatch(st) == IF st = "threw" THEN "rejected" ELSE "ok"

\* what the callback of batch.map returns for a document: { filePath, result }
\* from the try block, { filePath, error } from the catch block
CallbackOutcome(st) == IF st = "threw" THEN "error" ELSE "ok"

\* results[filePath] = error ? { error } : result
ResultEntry(t) ==
    IF t.st = "error" THEN "error" ELSE IF t.st = "ok" THEN "result" ELSE "none"

\* batch.map(async ...): every document of the wave runs optimizeHead up to
\* its first await
StartWave ==
    /\ bpc = "loop"
    /\ bi < Len(fileList)
    /\ bi > -MaxBackSteps
    /\ task' = [d \in 1..Len(fileList) |->
                   IF d \in Batch(bi)
                   THEN [task[d] EXCEPT !.st = OptimizeHeadSync(fileList[d], opts).st]
                   ELSE task[d]]
    /\ wave' = wave + 1
    /\ waveOf' = [d \in 1..Len(fileList) |-> IF d \in Batch(bi) THEN wave + 1 ELSE waveOf[d]]
    /\ bpc' = "await"
    /\ UNCHANGED <<fileList, batchSize, bi, results, resolveVars, headVars, pluginVars>>

\* optimizeHead resumes after generateAllSeoContent: injectSeoContent
DocInject(d) ==
    /\ task[d].st = "generated"
    /\ ppc # "called"
    /\ LET r == OptimizeHeadSync(fileList[d], opts)
       IN  task' = [task EXCEPT ![d].st = "injected",
                                ![d].html = InjectSeoContent(task[d].html, r.md, r.gen,
                                                             opts.cleanExisting)]
    /\ UNCHANGED <<fileList, batchSize, bi, results, bpc, waveOf, wave,
                   resolveVars, headVars, pluginVars>>

\* seoMetadata stored whatever became of optimizeHead
StoresMetadata_OutsideTry(st, hasMd) == TRUE

\* if (result.metadata) files[filePath].seoMetadata = result.metadata, in
\* the try block after the await: not reached when optimizeHead threw
StoresMetadata(st, hasMd) == st # "threw" /\ hasMd

\* the callback resumes after optimizeHead: contents and seoMetadata are
\* stored on the file, or the error is caught
DocSettle(d) ==
    /\ task[d].st \in {"threw", "skipped", "injected"}
    /\ ppc # "called"
    /\ task' = [task EXCEPT ![d].st = CallbackOutcome(task[d].st),
                            ![d].seoMetadata =
                                StoresMetadata(task[d].st,
                                               OptimizeHeadSync(fileList[d], opts).hasMd)]
    /\ UNCHANGED <<fileList, batchSize, bi, results, bpc, waveOf, wave,
                   resolveVars, headVars, pluginVars>>

\* after await Promise.all: batchResults.forEach, then i += batchSize; a
\* rejected Promise.all makes the await throw, and batchOptimizeHeads rejects
CollectWave ==
    /\ bpc = "await"
    /\ ppc # "called"
    /\ AllSettled(bi) \/ AnyRejected(bi)
    /\ IF AnyRejected(bi)
       THEN bpc' = "rejected" /\ UNCHANGED <<results, bi>>
       ELSE /\ results' = [d \in 1..Len(fileList) |->
                              IF d \in Batch(bi) THEN ResultEntry(task[d]) ELSE results[d]]
            /\ bi' = bi + batchSize
            /\ bpc' = "loop"
    /\ UNCHANGED <<fileList, batchSize, task, waveOf, wave, resolveVars, headVars, pluginVars>>

\* the loop condition fails: return results
ReturnResults ==
    /\ bpc = "loop"
    /\ bi >= Len(fileList)
    /\ bpc' = "done"
    /\ UNCHANGED <<fileList, batchSize, bi, task, results, waveOf, wave,
                   resolveVars, headVars, pluginVars>>

InitBatch ==
    /\ fileList \in FileLists
    /\ \E b \in BatchSizeOptions : batchSize = BatchSizeOf(b)
    /\ bi = 0
    /\ task = [d \in 1..Len(fileList) |->
                  [st |-> "pending", html |-> PlainHead, seoMetadata |-> FALSE]]
    /\ results = [d \in 1..Len(fileList) |-> "none"]
    /\ bpc = "loop"
    /\ waveOf = [d \in 1..Len(fileList) |-> 0]
    /\ wave = 0
    /\ ResolveIdle
    /\ HeadIdle
    /\ PluginIdle

NextBatch ==
    \/ StartWave
    \/ \E d \in 1..Len(fileList) : DocInject(d)
    \/ \E d \in 1..Len(fileList) : DocSettle(d)
    \/ CollectWave
    \/ ReturnResults

SpecBatch == InitBatch /\ [][NextBatch]_vars

\* the loop under any batchSize the configuration lets through: buildConfig
\* and batchOptimizeHeads both take options.batchSize || 10, which replaces
\* an unset or zero value only
LoopBatchSizes == {-2, -1} \cup BatchSizeOptions

InitLoop ==
    /\ fileList \in FileLists
    /\ \E b \in LoopBatchSizes : batchSize = BatchSizeOf(b)
    /\ bi = 0
    /\ task = [d \in 1..Len(fileList) |->
                  [st |-> "pending", html |-> PlainHead, seoMetadata |-> FALSE]]
    /\ results = [d \in 1..Len(fileList) |-> "none"]
    /\ bpc = "loop"
    /\ waveOf = [d \in 1..Len(fileList) |-> 0]
    /\ wave = 0
    /\ ResolveIdle
    /\ HeadIdle
    /\ PluginIdle

SpecLoop == InitLoop /\ [][NextBatch]_vars

\* the document's pipeline throws
Throws(d) == OptimizeHeadSync(fileList[d], opts).st = "threw"

\* the document's pipeline ran to its end: an unprocessed file keeps its
\* contents, a processed one holds the injected head
Completed(d) ==
    LET r == OptimizeHeadSync(fileList[d], opts)
    IN  /\ task[d].st = "ok"
        /\ task[d].html = IF r.st = "generated"
                          THEN InjectSeoContent(PlainHead, r.md, r.gen, opts.cleanExisting)
                          ELSE PlainHead
        /\ task[d].seoMetadata = r.hasMd

InFlightDocs == {d \in 1..Len(fileList) : InFlight(d)}

\* the wave a document belongs to, by its place in the list
WaveIndex(d) == ((d - 1) \div batchSize) + 1

\* the returned results: an entry for every document, an error entry exactly
\* for the documents that threw, every other pipeline run to its end
ResultsIsolated ==
    bpc = "done" =>
        \A d \in 1..Len(fileList) :
            /\ results[d] # "none"
            /\ results[d] = "error" <=> Throws(d)
            /\ ~Throws(d) => Completed(d)

\* batchOptimizeHeads is never stuck before it returns: a wave that is
\* awaited is settled or has a document whose continuation is ready
CanProceed ==
    bpc = "await" => (AllSettled(bi) \/ \E d \in Batch(bi) : InFlight(d))

\* C3: whatever documents throw, batchOptimizeHeads resolves, and its result
\* has an entry for every document, an error entry exactly for the documents
\* that threw, and every other document's pipeline has run to its end.
C3_FailureIsolation == bpc # "rejected" /\ CanProceed /\ ResultsIsolated

C3_Witness ==
    /\ bpc = "done" /\ Len(fileList) = 3 /\ batchSize = 2
    /\ Throws(1) /\ results[1] = "error"
    /\ ~Throws(2) /\ results[2] = "result" /\ Completed(2)
    /\ ~Throws(3) /\ results[3] = "result" /\ Completed(3)
    /\ OptimizeHeadSync(fileList[2], opts).st = "generated"
    /\ OptimizeHeadSync(fileList[3], opts).st = "generated"


\* C4: a document starts only when every document of the earlier waves has
\* settled, the waves follow the order of the list, and never more than
\* batchSize documents are in flight.
C4_WavesSequential ==
    /\ \A d, e \in 1..Len(fileList) :
          (WaveIndex(d) < WaveIndex(e) /\ task[e].st # "pending") => Settled(d)
    /\ \A d \in 1..Len(fileList) :
          task[d].st # "pending" => waveOf[d] = WaveIndex(d)
    /\ Cardinality(InFlightDocs) <= batchSize

C4_Witness ==
    /\ wave >= 2
    /\ bpc = "await"
    /\ Cardinality(InFlightDocs) = batchSize
    /\ \E d \in 1..Len(fileList) : WaveIndex(d) < wave /\ Settled(d)

---------------------------------------------------------------------------
(* Properties of single resolved fields *)

\* the keywords value the priority chain selects, before normalisation
RawKeywords ==
    ExtractWithPriority(SeoData(fm), fm, "keywords", "tags",
                        OrPath(opts.fallbacks.keywords, "tags"), Undef)

\* a keywords meta tag is among the generated meta tags
HasKeywordsTag(g) ==
    \E i \in 1..Len(g.metaTags) : g.metaTags[i].kind = "name" /\ g.metaTags[i].key = "keywords"

\* C11: the string "a, b, c" and the array ["a","b","c"] resolve to
\* ["a","b","c"]; a falsy keywords value (null, undefined, false, 0, "")
\* resolves to the empty array and no keywords meta tag is generated.
C11_KeywordNormalization ==
    (rpc \in {"generated", "injected"}) =>
        /\ RawKeywords \in {Str(<<"a", ",", " ", "b", ",", " ", "c">>),
                            Arr(<<<<"a">>, <<"b">>, <<"c">>>>)}
              => metadata.keywords = Arr(<<<<"a">>, <<"b">>, <<"c">>>>)
        /\ ~Truthy(RawKeywords)
              => metadata.keywords = Arr(<<>>) /\ ~HasKeywordsTag(gen)

\* the url the hostname and the cleaned path make: the hostname as given
\* (less a trailing slash), then the path with its runs of slashes collapsed
JoinedURL(hostname, filePath) ==
    StripTrailingSlash(hostname)
    \o CollapseSlashes(<<"/">> \o StripIndexSegment(StripHtmlExtension(filePath)))

\* C12: without an explicit canonicalURL the resolved canonicalURL is the
\* hostname, its scheme and host intact, joined with the path stripped of
\* its extension and of a trailing index segment, repeated slashes of the
\* path collapsed; it starts with the scheme and "//".
C12_CanonicalAbsolute ==
    (rpc # "start" /\ ~metadata.threw /\ ~Truthy(SeoData(fm)["canonicalURL"])) =>
        /\ metadata.canonicalURL = Str(JoinedURL(opts.hostname, fm.path))
        /\ SubSeq(metadata.canonicalURL.s, 1, 3) = SubSeq(opts.hostname, 1, 3)

---------------------------------------------------------------------------
(* Properties of the documents a build passes over *)

\* the document is not an HTML file, or its contents is not a byte buffer
SkippedInput(f) == ~IsHtmlFile(f.path) \/ ~f.contents.isBuffer

\* C13: in the results batchOptimizeHeads returns, a document that is not an
\* HTML file or whose contents is not a buffer (a string, or no contents)
\* has no error entry, its contents are unchanged and no metadata is
\* attached to it.
C13_SkippedInput ==
    bpc = "done" =>
        \A d \in 1..Len(fileList) :
            SkippedInput(fileList[d]) =>
                /\ results[d] = "result"
                /\ task[d].html = PlainHead
                /\ ~task[d].seoMetadata

---------------------------------------------------------------------------
(* The plugin function (index.js 142-193): buildConfig and validateConfig  *)
(* of config-builder.js, batchOptimizeHeads, processSitemap, processRobots *)
(* and the completion callback.  A key that an options object does not     *)
(* carry is undefined; robots.txt is text, a sequence of atoms with "\n"   *)
(* between its lines.                                                      *)

MaxPluginDocs == 2
MaxRuns == 2

\* { ...base, ...over }: the keys over carries replace those of base
Spread(base, over) ==
    [k \in DOMAIN base |-> IF k \in DOMAIN over /\ over[k].t # "undef" THEN over[k] ELSE base[k]]

NoPluginDefaults ==
    [title |-> Undef, description |-> Undef, socialImage |-> Undef, siteOwner |-> Undef,
     robots |-> Undef]

NoJsonLd == [organization |-> Undef]

NoSitemapOptions == [output |-> Undef, modifiedProperty |-> Undef, lastmod |-> Undef]

NoRobotsOptions == [generateRobots |-> Undef, addSitemapReference |-> Undef]

\* seo(): no option given.  fallbacks is a set: empty when the option is
\* not given, else the one object given.  batchSize 0 is the option not given.
NoPluginOptions ==
    [hostname |-> Undef, defaults |-> NoPluginDefaults, social |-> NoSocial,
     jsonLd |-> NoJsonLd, enableSitemap |-> Undef, enableRobots |-> Undef, batchSize |-> 0,
     fallbacks |-> {}, sitemap |-> NoSitemapOptions, robots |-> NoRobotsOptions]

\* metalsmith.metadata() without a site object: siteMetadata is {}
NoSiteMetadata ==
    [url |-> Undef, title |-> Undef, description |-> Undef, socialImage |-> Undef,
     defaultImage |-> Undef, siteOwner |-> Undef, name |-> Undef, locale |-> Undef,
     twitter |-> Undef, facebookAppId |-> Undef, organization |-> Undef,
     social |-> NoSocial, jsonLd |-> NoJsonLd, sitemap |-> NoSitemapOptions,
     robots |-> NoRobotsOptions]

\* files["index.html"] || files["index.md"]
IndexFiles(files) ==
    LET indexHtml == {d \in 1..Len(files) : files[d].path = <<"index", ".html">>}
        indexMd == {d \in 1..Len(files) : files[d].path = <<"index", ".md">>}
    IN  IF indexHtml # {} THEN indexHtml ELSE indexMd

\* deduceSiteMetadata
DeduceSiteMetadata(files, pluginDefaults) ==
    IF IndexFiles(files) = {}
    THEN [deducedSiteName |-> Str(<<>>), deducedDescription |-> Str(<<>>)]
    ELSE LET indexFile == files[CHOOSE d \in IndexFiles(files) : TRUE]
         IN  [deducedSiteName |->
                  IF ~Truthy(pluginDefaults.title)
                  THEN Or(SeoData(indexFile)["title"], GetRoot(indexFile, "title"))
                  ELSE Str(<<>>),
              deducedDescription |->
                  IF ~Truthy(pluginDefaults.description)
                  THEN Or(Or(SeoData(indexFile)["description"], GetRoot(indexFile, "description")),
                          GetRoot(indexFile, "excerpt"))
                  ELSE Str(<<>>)]

\* buildConfig; the legacy root-level sitemap options are options not given
BuildConfig(po, sm, files) ==
    LET hasSiteMetadata == sm # NoSiteMetadata
        deduced == IF ~hasSiteMetadata THEN DeduceSiteMetadata(files, po.defaults)
                   ELSE [deducedSiteName |-> Str(<<>>), deducedDescription |-> Str(<<>>)]
    IN  [hostname |-> Or(sm.url, po.hostname),
         defaults |->
             Spread([title |-> Or(Or(po.defaults.title, sm.title), deduced.deducedSiteName),
                     description |-> Or(Or(po.defaults.description, sm.description),
                                        deduced.deducedDescription),
                     socialImage |-> Or(Or(Or(po.defaults.socialImage, sm.socialImage),
                                           sm.defaultImage), Str(<<>>)),
                     siteOwner |-> Or(Or(po.defaults.siteOwner, sm.siteOwner), Str(<<>>)),
                     robots |-> Undef],
                    po.defaults),
         social |->
             Spread(Spread([NoSocial EXCEPT
                               !.siteName = Or(Or(Or(po.social.siteName, sm.name), sm.title),
                                               deduced.deducedSiteName),
                               !.locale = Or(Or(po.social.locale, sm.locale), Str(<<"en_US">>)),
                               !.twitterSite = Or(po.social.twitterSite, sm.twitter),
                               !.facebookAppId = Or(po.social.facebookAppId, sm.facebookAppId)],
                           sm.social),
                    po.social),
         jsonLd |->
             Spread(Spread([organization |-> Or(po.jsonLd.organization, sm.organization)],
                           sm.jsonLd),
                    po.jsonLd),
         enableSitemap |-> IF po.enableSitemap.t # "undef" THEN po.enableSitemap
                           ELSE Bool("true"),
         enableRobots |-> IF po.enableRobots.t # "undef" THEN po.enableRobots
                          ELSE Bool("true"),
         batchSize |-> BatchSizeOf(po.batchSize),
         fallbacks |-> IF po.fallbacks = {} THEN PluginFallbacks
                       ELSE CHOOSE f \in po.fallbacks : TRUE,
         sitemap |->
             Spread(Spread([output |-> Str(<<"sitemap.xml">>),
                            modifiedProperty |-> Str(<<"lastmod">>),
                            lastmod |-> Undef,
                            hostname |-> Undef],
                           sm.sitemap),
                    po.sitemap),
         robots |->
             Spread(Spread([generateRobots |-> Bool("true"),
                            addSitemapReference |-> Bool("true"),
                            hostname |-> Undef,
                            sitemapFile |-> Undef],
                           sm.robots),
                    po.robots)]

\* what optimizeHead destructures from the config it is handed: the config
\* has no cleanExisting and no generateSitemap key, so both take their
\* default, true
OptimizerOptions(c) ==
    [hostname |-> c.hostname.s, defaults |-> c.defaults, fallbacks |-> c.fallbacks,
     social |-> c.social, cleanExisting |-> TRUE, generateSitemap |-> TRUE]

\* metalsmith.match("**/*.html", file)
MatchesPattern(filePath) == Len(filePath) > 0 /\ filePath[Len(filePath)] = ".html"

\* a test that reads what the pipelines store on the file as well
InSitemap_UnlessOptimized(f) ==
    /\ f.contents.isBuffer
    /\ MatchesPattern(f.path)
    /\ ~Truthy(GetRoot(f, "private"))
    /\ ~f.seoMetadata

\* processSitemap's test of a file: Buffer contents, the pattern, not private
InSitemap(f) ==
    /\ f.contents.isBuffer
    /\ MatchesPattern(f.path)
    /\ ~Truthy(GetRoot(f, "private"))

\* get(frontmatter, modifiedProperty) || lastmod
LastmodValue(f, sc) == Or(GetRoot(f, sc.modifiedProperty.s[1]), sc.lastmod)

\* d.toISOString() on an invalid Date throws a RangeError
LastmodThrows(f, sc) == LastmodValue(f, sc).t = "date" /\ LastmodValue(f, sc).s = <<>>

NoSitemap == [st |-> "none", urls |-> {}]

\* processSitemap: the promise it returns and the urls of the file it adds;
\* an exception in its executor rejects the promise and no file is added
ProcessSitemap(files, sc) ==
    LET entries == {d \in 1..Len(files) : InSitemap(files[d])}
    IN  IF \E d \in entries : LastmodThrows(files[d], sc)
        THEN [st |-> "rejected", urls |-> {}]
        ELSE [st |-> "resolved", urls |-> {files[d].path : d \in entries}]

\* content.includes(sub)
Includes(content, sub) ==
    \E i \in 1..(Len(content) - Len(sub) + 1) : SubSeq(content, i, i + Len(sub) - 1) = sub

RECURSIVE TrimTextLeft(_)
TrimTextLeft(s) == IF s # <<>> /\ Head(s) \in {" ", "\n"} THEN TrimTextLeft(Tail(s)) ELSE s

RECURSIVE TrimTextRight(_)
TrimTextRight(s) ==
    IF s # <<>> /\ s[Len(s)] \in {" ", "\n"} THEN TrimTextRight(SubSeq(s, 1, Len(s) - 1)) ELSE s

\* content.trim() on a text of several lines
TrimText(s) == TrimTextRight(TrimTextLeft(s))

\* generateBasicRobots with the default user agent and no disallowed paths
GenerateBasicRobots(sitemapUrl) ==
    <<"User-agent", ":", " ", "*", "\n", "Disallow", ":", "\n", "\n", "Sitemap", ":", " ">>
    \o sitemapUrl \o <<"\n">>

NoRobotsTxt == [exists |-> FALSE, content |-> <<>>, original |-> <<>>, added |-> 0]

\* processRobots.  r is files["robots.txt"]: r.original is the text the site
\* supplied and r.added counts the Sitemap lines appended, both kept for
\* the properties only.
ProcessRobots(r, ro) ==
    LET sitemapUrl == StripTrailingSlash(ro.hostname.s) \o <<"/">> \o ro.sitemapFile.s
    IN  IF r.exists
        THEN IF /\ Truthy(ro.addSitemapReference)
                /\ ~Includes(r.content, <<"Sitemap", ":">>)
                /\ ~Includes(r.content, <<"sitemap", ":">>)
             THEN [r EXCEPT !.content = TrimText(r.content)
                                        \o <<"\n", "\n", "Sitemap", ":", " ">> \o sitemapUrl
                                        \o <<"\n">>,
                            !.added = @ + 1]
             ELSE r
        ELSE IF Truthy(ro.generateRobots)
        THEN [exists |-> TRUE, content |-> GenerateBasicRobots(sitemapUrl),
              original |-> <<>>, added |-> 0]
        ELSE r

PluginHostname == <<"https:", "/", "/", "plugin.example">>
SiteUrl == <<"https:", "/", "/", "site.example">>

\* seo({ hostname }) and a plugin given every setting the site metadata
\* can give as well
HostnameOnlyOptions == [NoPluginOptions EXCEPT !.hostname = Str(PluginHostname)]

FullPluginOptions ==
    [NoPluginOptions EXCEPT
        !.hostname = Str(PluginHostname),
        !.defaults = [NoPluginDefaults EXCEPT
                         !.title = Str(<<"P">>),
                         !.description = Str(<<"P", "d">>),
                         !.socialImage = Str(<<"/", "plugin.png">>),
                         !.siteOwner = Str(<<"Plugin Owner">>)],
        !.social = [NoSocial EXCEPT
                       !.siteName = Str(<<"Plugin Site">>),
                       !.locale = Str(<<"de_DE">>),
                       !.twitterSite = Str(<<"@", "plugin">>),
                       !.facebookAppId = Str(<<"1">>)],
        !.jsonLd = [organization |-> Obj(<<"Plugin Org">>)]]

PluginOptionSets ==
    {[po EXCEPT !.enableSitemap = es, !.sitemap.modifiedProperty = mp, !.batchSize = bs] :
        po \in {NoPluginOptions, HostnameOnlyOptions, FullPluginOptions},
        es \in {Undef, Bool("false")},
        mp \in {Undef, Str(<<"date">>)},
        bs \in {0, 1}}

UrlOnlySite == [NoSiteMetadata EXCEPT !.url = Str(SiteUrl)]

FullSite ==
    [NoSiteMetadata EXCEPT
        !.url = Str(SiteUrl),
        !.title = Str(<<"S">>),
        !.description = Str(<<"S", "d">>),
        !.socialImage = Str(<<"/", "site.png">>),
        !.siteOwner = Str(<<"Site Owner">>),
        !.name = Str(<<"Site Name">>),
        !.locale = Str(<<"en_GB">>),
        !.twitter = Str(<<"@", "site">>),
        !.facebookAppId = Str(<<"2">>),
        !.organization = Obj(<<"Site Org">>),
        !.social = [NoSocial EXCEPT !.siteName = Str(<<"Social Name">>),
                                    !.twitterSite = Str(<<"@", "social">>)],
        !.jsonLd = [organization |-> Obj(<<"JsonLd Org">>)]]

SiteMetadataSets == {NoSiteMetadata, UrlOnlySite, FullSite}

\* a page, a page marked noIndex, a page whose date is an invalid Date and
\* the index page, each under its own path
PluginFiles ==
    {[BaseFile EXCEPT !.seo = [EmptySeo EXCEPT !["title"] = Str(<<"T">>)]],
     [BaseFile EXCEPT !.path = <<"private", "/", "draft", ".html">>,
                      !.seo = [EmptySeo EXCEPT !["noIndex"] = Bool("true")]],
     [BaseFile EXCEPT !.path = <<"news", "/", "item", ".html">>,
                      !.root = [EmptyRoot EXCEPT !["date"] = InvalidDate]],
     [BaseFile EXCEPT !.path = <<"index", ".html">>,
                      !.root = [EmptyRoot EXCEPT !["title"] = Str(<<"H", "o", "m", "e">>)]]}

\* Object.keys(files): no path occurs twice
PluginFileLists ==
    {l \in UNION {[1..n -> PluginFiles] : n \in 0..MaxPluginDocs} :
        \A i, j \in 1..Len(l) : i # j => l[i].path # l[j].path}

RobotsRules == <<"User-agent", ":", " ", "*", "\n", "Disallow", ":", " ", "/", "private", "\n">>

\* robots.txt as the site supplies it: none, rules only, and rules with a
\* sitemap reference whose field name is written Sitemap, sitemap or SITEMAP
RobotsTexts ==
    {<<>>, RobotsRules} \cup
    {RobotsRules \o <<name, ":", " ">> \o SiteUrl \o <<"/", "sitemap.xml", "\n">> :
        name \in {"Sitemap", "sitemap", "SITEMAP"}}

\* files[filePath] as it is now: the frontmatter, with the contents and the
\* seoMetadata the pipelines have stored so far
LiveFile(d) ==
    [path |-> fileList[d].path, seoKind |-> fileList[d].seoKind, seo |-> fileList[d].seo,
     cardKind |-> fileList[d].cardKind, card |-> fileList[d].card, root |-> fileList[d].root,
     contents |-> fileList[d].contents, html |-> task[d].html,
     seoMetadata |-> task[d].seoMetadata]

LiveFiles == [d \in 1..Len(fileList) |-> LiveFile(d)]

\* the plugin function up to the call of batchOptimizeHeads: buildConfig,
\* validateConfig (which throws without a hostname, and the callback is never
\* called), batchOptimizeHeads(files, config).  batchOptimizeHeads runs up to
\* its first await inside this call: that part is StartWave (ReturnResults
\* for no file), taken next, before the plugin function goes on.
PluginCall ==
    /\ ppc = "start"
    /\ LET c == BuildConfig(pluginOptions, siteMetadata, fileList)
       IN  /\ config' = c
           /\ IF ~Truthy(c.hostname)
              THEN /\ ppc' = "threw"
                   /\ UNCHANGED <<opts, batchSize, bpc>>
              ELSE /\ ppc' = "called"
                   /\ opts' = OptimizerOptions(c)
                   /\ batchSize' = c.batchSize
                   /\ bpc' = "loop"
    /\ UNCHANGED <<fm, metadata, gen, rpc, headVars, fileList, bi, task, results, waveOf, wave,
                   pluginOptions, siteMetadata, sitemap, robotsTxt, doneArg, runs, doneCalls,
                   siteMetadataCache>>

\* the plugin function after batchOptimizeHeads has returned its promise:
\* config.sitemap.hostname = config.hostname, processSitemap (its executor
\* runs inside the call), Promise.all(...).then(...).then(...).catch(done)
PluginSitemap ==
    /\ ppc = "called"
    /\ bpc # "loop"
    /\ IF Truthy(config.enableSitemap)
       THEN LET sc == [config.sitemap EXCEPT !.hostname = config.hostname]
            IN  /\ config' = [config EXCEPT !.sitemap = sc]
                /\ sitemap' = ProcessSitemap(LiveFiles, sc)
       ELSE /\ sitemap' = [sitemap EXCEPT !.st = "none"]
            /\ UNCHANGED config
    /\ ppc' = "running"
    /\ UNCHANGED <<resolveVars, headVars, batchVars, pluginOptions, siteMetadata, robotsTxt,
                   doneArg, runs, doneCalls, siteMetadataCache>>

\* Promise.all with one promise settled and the other not looked at
AllFulfilled_Race == sitemap.st # "rejected"

\* Promise.all([headOptimization, sitemapGeneration]) is fulfilled
AllFulfilled == bpc = "done" /\ sitemap.st # "rejected"

\* Promise.all([headOptimization, sitemapGeneration]) is rejected: as soon as
\* one of the two is
OneRejected == bpc = "rejected" \/ sitemap.st = "rejected"

\* the first .then: config.robots.hostname and config.robots.sitemapFile are
\* set and processRobots runs, when robots.txt is enabled
PluginThen ==
    /\ ppc = "running"
    /\ AllFulfilled
    /\ IF Truthy(config.enableRobots)
       THEN LET ro == [config.robots EXCEPT !.hostname = config.hostname,
                                            !.sitemapFile = config.sitemap.output]
            IN  /\ config' = [config EXCEPT !.robots = ro]
                /\ robotsTxt' = ProcessRobots(robotsTxt, ro)
       ELSE UNCHANGED <<config, robotsTxt>>
    /\ ppc' = "then"
    /\ UNCHANGED <<resolveVars, headVars, batchVars, pluginOptions, siteMetadata, sitemap,
                   doneArg, runs, doneCalls, siteMetadataCache>>

\* the second .then: done().  The callback returns, or it throws and the
\* promise of this .then is rejected.
PluginDone ==
    /\ ppc = "then"
    /\ doneCalls' = doneCalls + 1
    /\ doneArg' = "no error"
    /\ \E callbackThrows \in BOOLEAN :
          IF callbackThrows
          THEN ppc' = "caught" /\ UNCHANGED runs
          ELSE ppc' = "done" /\ runs' = runs + 1
    /\ UNCHANGED <<resolveVars, headVars, batchVars, pluginOptions, siteMetadata, config,
                   sitemap, robotsTxt, siteMetadataCache>>

\* .catch(done): done(error), for a rejection of Promise.all, of the first
\* .then or of the second
PluginCatch ==
    /\ \/ ppc = "running" /\ OneRejected
       \/ ppc = "caught"
    /\ doneCalls' = doneCalls + 1
    /\ doneArg' = "error"
    /\ ppc' = "done"
    /\ runs' = runs + 1
    /\ UNCHANGED <<resolveVars, headVars, batchVars, pluginOptions, siteMetadata, config,
                   sitemap, robotsTxt, siteMetadataCache>>

\* the plugin is run once more on the files the last run left
RunAgain ==
    /\ ppc = "done"
    /\ bpc = "done"
    /\ doneArg = "no error"
    /\ runs < MaxRuns
    /\ ppc' = "start"
    /\ doneArg' = "none"
    /\ doneCalls' = 0
    /\ task' = [d \in 1..Len(fileList) |-> [task[d] EXCEPT !.st = "pending"]]
    /\ results' = [d \in 1..Len(fileList) |-> "none"]
    /\ bi' = 0
    /\ bpc' = "idle"
    /\ waveOf' = [d \in 1..Len(fileList) |-> 0]
    /\ wave' = 0
    /\ UNCHANGED <<resolveVars, headVars, fileList, batchSize, pluginOptions, siteMetadata,
                   config, sitemap, robotsTxt, runs, siteMetadataCache>>

InitPlugin ==
    /\ pluginOptions \in PluginOptionSets
    /\ siteMetadata \in SiteMetadataSets
    /\ config = Undef
    /\ sitemap = NoSitemap
    /\ \E text \in RobotsTexts :
          robotsTxt = [exists |-> text # <<>>, content |-> text, original |-> text, added |-> 0]
    /\ ppc = "start"
    /\ doneArg = "none"
    /\ runs = 0
    /\ doneCalls = 0
    /\ siteMetadataCache = Null
    /\ fileList \in PluginFileLists
    /\ batchSize = 0
    /\ bi = 0
    /\ task = [d \in 1..Len(fileList) |->
                  [st |-> "pending", html |-> PlainHead, seoMetadata |-> FALSE]]
    /\ results = [d \in 1..Len(fileList) |-> "none"]
    /\ bpc = "idle"
    /\ waveOf = [d \in 1..Len(fileList) |-> 0]
    /\ wave = 0
    /\ ResolveIdle
    /\ HeadIdle

NextPlugin ==
    \/ PluginCall
    \/ StartWave
    \/ \E d \in 1..Len(fileList) : DocInject(d)
    \/ \E d \in 1..Len(fileList) : DocSettle(d)
    \/ CollectWave
    \/ ReturnResults
    \/ PluginSitemap
    \/ PluginThen
    \/ PluginDone
    \/ PluginCatch
    \/ RunAgain

SpecPlugin == InitPlugin /\ [][NextPlugin]_vars

---------------------------------------------------------------------------
(* Properties of a build: configuration, completion, robots.txt *)

\* a document the pipeline processes whose override block marks it noIndex
MarkedNoIndex(f) ==
    IsHtmlFile(f.path) /\ f.contents.isBuffer /\ Truthy(ExtractNoIndex(SeoData(f)))

\* C14: when sitemap generation is disabled for the build, a document marked
\* noIndex keeps its HTML as it was and still gets its resolved metadata
\* attached as seoMetadata.
C14_NoIndexLeftUnmodified ==
    (ppc = "done" /\ runs = 1 /\ ~Truthy(config.enableSitemap)) =>
        \A d \in 1..Len(fileList) :
            MarkedNoIndex(fileList[d]) =>
                /\ task[d].html = PlainHead
                /\ task[d].seoMetadata

\* C15: when the pipeline of one or more documents fails, the completion
\* callback is still called without an error, and the sitemap and
\* robots.txt steps that are enabled have run.
C15_BuildSurvivesDocumentFailure ==
    (ppc = "done" /\ \E d \in 1..Len(fileList) : Throws(d)) =>
        /\ doneArg = "no error"
        /\ Truthy(config.enableSitemap) => sitemap.st = "resolved"
        /\ Truthy(config.enableRobots) => robotsTxt.exists

\* neither the override block, the card block nor the root level names an author
NoAuthorGiven(f) ==
    /\ ~Truthy(SeoData(f)["author"])
    /\ ~Truthy(GetCard(f, "author"))
    /\ ~Truthy(GetRoot(f, "author"))

\* C18: a document that names no author resolves to the configured
\* siteOwner, in seoMetadata.author and in the author tag of its head.
C18_AuthorFallback ==
    (ppc = "done" /\ Truthy(config.defaults.siteOwner)) =>
        \A d \in 1..Len(fileList) :
            (task[d].st = "ok" /\ task[d].seoMetadata /\ NoAuthorGiven(fileList[d])) =>
                LET r == OptimizeHeadSync(fileList[d], opts)
                IN  /\ r.md.author = config.defaults.siteOwner
                    /\ r.st = "generated" =>
                          \E i \in 1..Len(task[d].html) :
                              task[d].html[i] =
                                  Elem("meta", "name", "author", config.defaults.siteOwner.s)

\* the setting is supplied by the plugin options and by the site metadata
SuppliedByBoth(fromOptions, fromSite) == Defined(fromOptions) /\ Defined(fromSite)

\* C19: a setting supplied both in the plugin options and in the site
\* metadata takes the value of the plugin options: hostname, default title,
\* description and social image, the social settings, the organization.
C19_PluginOptionsWin ==
    ppc # "start" =>
        LET po == pluginOptions
            sm == siteMetadata
        IN  /\ SuppliedByBoth(po.hostname, sm.url) => config.hostname = po.hostname
            /\ SuppliedByBoth(po.defaults.title, sm.title) =>
                  config.defaults.title = po.defaults.title
            /\ SuppliedByBoth(po.defaults.description, sm.description) =>
                  config.defaults.description = po.defaults.description
            /\ SuppliedByBoth(po.defaults.socialImage, sm.socialImage) =>
                  config.defaults.socialImage = po.defaults.socialImage
            /\ SuppliedByBoth(po.defaults.siteOwner, sm.siteOwner) =>
                  config.defaults.siteOwner = po.defaults.siteOwner
            /\ (Defined(po.social.siteName)
                /\ (Defined(sm.name) \/ Defined(sm.social.siteName))) =>
                  config.social.siteName = po.social.siteName
            /\ SuppliedByBoth(po.social.locale, sm.locale) =>
                  config.social.locale = po.social.locale
            /\ (Defined(po.social.twitterSite)
                /\ (Defined(sm.twitter) \/ Defined(sm.social.twitterSite))) =>
                  config.social.twitterSite = po.social.twitterSite
            /\ SuppliedByBoth(po.social.facebookAppId, sm.facebookAppId) =>
                  config.social.facebookAppId = po.social.facebookAppId
            /\ (Defined(po.jsonLd.organization)
                /\ (Defined(sm.organization) \/ Defined(sm.jsonLd.organization))) =>
                  config.jsonLd.organization = po.jsonLd.organization

\* field names of robots.txt are case-insensitive
FieldName(atom) == IF atom \in {"Sitemap", "sitemap", "SITEMAP"} THEN "sitemap" ELSE atom

\* the lines of a robots.txt that reference a sitemap, by where they start
SitemapReferences(content) ==
    {i \in 1..(Len(content) - 1) :
        /\ FieldName(content[i]) = "sitemap"
        /\ content[i + 1] = ":"
        /\ (i = 1 \/ content[i - 1] = "\n")}

\* C20: a robots.txt the site supplies keeps its text, gets at most one
\* Sitemap line from the plugin over any number of runs, and gets none when
\* it references a sitemap already.
C20_RobotsCoordination ==
    robotsTxt.original # <<>> =>
        /\ SubSeq(robotsTxt.content, 1, Len(TrimText(robotsTxt.original)))
               = TrimText(robotsTxt.original)
        /\ robotsTxt.added <= 1
        /\ robotsTxt.added = 1 => SitemapReferences(robotsTxt.original) = {}

---------------------------------------------------------------------------
(* Properties of the order of the mutated head *)

IsJsonLd(e) == e.tag = "script" /\ e.key = "application/ld+json"

\* a meta tag of the head that the last build injected
IsInjectedMeta(e) == e.tag = "meta" /\ <<e.kind, e.key>> \in InjectedKeys(gen)

\* a link tag of the head that the last build injected
IsInjectedLink(e) ==
    e.tag = "link" /\ \E i \in 1..Len(gen.linkTags) : gen.linkTags[i].key = e.key

\* one of the critical tags the last build injected
IsInjectedCritical(e) == IsInjectedMeta(e) /\ e.key \in {"viewport", "description", "robots"}

\* C16: after a build the head holds exactly one application/ld+json
\* script, and it follows every meta and link tag the build injected, with
\* cleaning of existing tags enabled or not.
C16_OneTrailingScript ==
    rpc = "injected" =>
        /\ CountOf(html, IsJsonLd) = 1
        /\ \A i, j \in 1..Len(html) :
              (IsJsonLd(html[j]) /\ (IsInjectedMeta(html[i]) \/ IsInjectedLink(html[i])))
                  => i < j

\* C17: after a first build and after every repeated build, the injected
\* viewport, description and robots tags come before every other tag the
\* build injected: links, other meta tags, Open Graph and Twitter tags and
\* the script.
C17_CriticalTagsFirst ==
    rpc = "injected" =>
        \A i, j \in 1..Len(html) :
            (/\ IsInjectedCritical(html[i])
             /\ ~IsInjectedCritical(html[j])
             /\ (IsInjectedMeta(html[j]) \/ IsInjectedLink(html[j]) \/ IsJsonLd(html[j])))
                => i < j

---------------------------------------------------------------------------
(* Properties of the Twitter title *)

\* the content of the twitter:title tag the generator produced
TwitterTitle(g) ==
    LET at == {i \in 1..Len(g.twitter) : g.twitter[i].key = "twitter:title"}
    IN  g.twitter[CHOOSE i \in at : TRUE].content

HasTwitterTitle(g) == \E i \in 1..Len(g.twitter) : g.twitter[i].key = "twitter:title"

EndsWithEllipsis(s) == Len(s) >= 3 /\ SubSeq(s, Len(s) - 2, Len(s)) = <<".", ".", ".">>

\* C21: for a title longer than 70 characters the Twitter title has at most
\* 73 characters and ends with "..."; a title of at most 70 characters is
\* the Twitter title unchanged.
C21_TruncationLaw ==
    (rpc \in {"generated", "injected"} /\ metadata.title.t = "str") =>
        /\ HasTwitterTitle(gen)
        /\ IF Len(metadata.title.s) > TitleLimit
           THEN /\ Len(TwitterTitle(gen)) <= TitleLimit + 3
                /\ EndsWithEllipsis(TwitterTitle(gen))
           ELSE TwitterTitle(gen) = metadata.title.s

C21_Witness ==
    /\ rpc = "injected"
    /\ Len(metadata.title.s) = TitleLimit + 1
    /\ Len(TwitterTitle(gen)) = 60
    /\ EndsWithEllipsis(TwitterTitle(gen))

\* C30: for a title longer than 70 characters whose last space within the
\* first 70 characters is at position 56 or later, the Twitter title is the
\* title cut at that space plus "..."; otherwise it is the first 70
\* characters plus "...".
C30_WordBoundaryCut ==
    (rpc \in {"generated", "injected"} /\ metadata.title.t = "str"
     /\ Len(metadata.title.s) > TitleLimit) =>
        LET title == metadata.title.s
            lastSpace == LastIndexOfSpace(SubSeq(title, 1, TitleLimit))
        IN  TwitterTitle(gen) =
                IF lastSpace >= 56
                THEN SubSeq(title, 1, lastSpace) \o <<".", ".", ".">>
                ELSE SubSeq(title, 1, TitleLimit) \o <<".", ".", ".">>

---------------------------------------------------------------------------
(* Properties of the batch loop under any batchSize *)

\* C25: batchOptimizeHeads terminates for every document set and every
\* batchSize (unset, zero, negative ...) and runs the pipeline of each
\* document exactly once: the loop index has advanced by at least one for
\* every wave started, a wave starts pending documents only, and when the
\* function returns every document has run and settled.
C25_LoopTerminates ==
    /\ bpc = "loop" => bi >= wave
    /\ (bpc = "loop" /\ bi < Len(fileList)) =>
           \A d \in Batch(bi) : task[d].st = "pending"
    /\ bpc = "done" => \A d \in 1..Len(fileList) : waveOf[d] >= 1 /\ Settled(d)

\* C28: a document whose pipeline fails is left as it was before the build:
\* its contents are not rewritten and no seoMetadata is attached.
C28_NoPartialMutation ==
    \A d \in 1..Len(fileList) :
        (Throws(d) /\ task[d].st # "pending") =>
            /\ task[d].st \in {"threw", "error"}
            /\ task[d].html = PlainHead
            /\ ~task[d].seoMetadata

C28_Witness ==
    /\ bpc = "done"
    /\ \E d, e \in 1..Len(fileList) :
          /\ Throws(d) /\ task[d].st = "error"
          /\ task[d].html = PlainHead /\ ~task[d].seoMetadata
          /\ task[e].st = "ok" /\ task[e].html # PlainHead /\ task[e].seoMetadata

---------------------------------------------------------------------------
(* Properties of the steps of a plugin invocation *)

\* C22: the completion callback is called exactly once per invocation that
\* passes validation, without argument when the batch, sitemap and robots
\* steps succeed and with the error when one rejects, and never a second
\* time, also when the callback throws.
C22_DoneExactlyOnce ==
    /\ doneCalls <= 1
    /\ ppc = "done" =>
          /\ doneCalls = 1
          /\ doneArg = "error" <=> OneRejected

\* C23: while a document pipeline is in flight the configuration object is
\* not written, and a step changes the entries of documents of the current
\* wave only.
C23_ConfigNotWrittenInFlight ==
    [][/\ (\E d \in 1..Len(fileList) : InFlight(d)) => config' = config
       /\ \A d \in 1..Len(fileList) :
             (task'[d] # task[d] /\ ppc' # "start") => waveOf'[d] = wave']_vars

\* C24: robots.txt is processed only when every wave of the batch and the
\* sitemap have completed and before the callback is called; the callback
\* is called only after the robots step has run.
C24_RobotsAfterBatchAndSitemap ==
    [][/\ robotsTxt' # robotsTxt =>
             /\ bpc = "done"
             /\ \A d \in 1..Len(fileList) : Settled(d)
             /\ sitemap.st \in {"resolved", "none"}
             /\ Truthy(config.enableSitemap) => sitemap.st = "resolved"
             /\ doneCalls = 0
       /\ (doneCalls' > doneCalls /\ doneArg' = "no error") =>
             /\ robotsTxt' = robotsTxt
             /\ Truthy(config.enableRobots) =>
                   /\ config.robots.hostname = config.hostname
                   /\ Truthy(config.robots.generateRobots) => robotsTxt.exists]_vars

C24_Witness ==
    /\ ppc = "done" /\ doneArg = "no error" /\ doneCalls = 1
    /\ wave >= 2
    /\ sitemap.st = "resolved" /\ sitemap.urls # {}
    /\ robotsTxt.exists /\ robotsTxt.original = <<>>

\* the files as the build found them: nothing rewritten, nothing attached
SourceFiles ==
    [d \in 1..Len(fileList) |-> [LiveFile(d) EXCEPT !.html = PlainHead, !.seoMetadata = FALSE]]

---------------------------------------------------------------------------
(* Properties of the generated tags in the mutated head *)

\* the attribute a generated tag is written with
AttributeOf(kind) == IF kind = "httpEquiv" THEN "http-equiv" ELSE kind

\* the head holds a meta element for the generated tag, with its value
InHead(h, kind, t) ==
    \E i \in 1..Len(h) : h[i] = Elem("meta", AttributeOf(kind), t.key, t.content)

\* C26: every tag the generators produced is in the mutated head with its
\* own value: the http-equiv tags, each of the per-keyword article:tag
\* tags; none is dropped or overwritten by another generated tag.
C26_EveryGeneratedTagInHead ==
    rpc = "injected" =>
        /\ \A i \in 1..Len(gen.metaTags) : InHead(html, gen.metaTags[i].kind, gen.metaTags[i])
        /\ \A i \in 1..Len(gen.openGraph) : InHead(html, "property", gen.openGraph[i])
        /\ \A i \in 1..Len(gen.twitter) : InHead(html, "name", gen.twitter[i])

---------------------------------------------------------------------------
(* The plugin entry that keeps the site metadata in a module-level cache  *)
(* (the entry lib/index.js is built from): its configuration step over a  *)
(* sequence of invocations in one process.                                 *)

\* what the first invocation finds out and stores in siteMetadataCache: the
\* site metadata, and the site name deduced from the title of the index file
\* when there is no site metadata and no default title
SiteValues(po, sm, files) ==
    LET hasSiteMetadata == sm # NoSiteMetadata
        index == IndexFiles(files)
        indexTitle == IF index = {} THEN Undef
                      ELSE GetRoot(files[CHOOSE d \in index : TRUE], "title")
    IN  [siteMetadata |-> sm,
         hasSiteMetadata |-> hasSiteMetadata,
         deducedSiteName |->
             IF ~hasSiteMetadata /\ ~Truthy(po.defaults.title) /\ Truthy(indexTitle)
             THEN indexTitle ELSE Null,
         deducedDescription |-> Null]

\* siteMetadataCache !== null ? the cached values : the values of this call
SiteValuesUsed(cache, po, sm, files) ==
    IF cache # Null THEN cache ELSE SiteValues(po, sm, files)

\* const config = { hostname, defaults, social, jsonLd, ... } of the cached entry
CachedConfig(po, v) ==
    LET sm == v.siteMetadata
    IN  [hostname |-> Or(sm.url, po.hostname),
         defaults |->
             Spread([title |-> Or(Or(po.defaults.title, sm.title), v.deducedSiteName),
                     description |-> Or(Or(po.defaults.description, sm.description),
                                        v.deducedDescription),
                     socialImage |-> Or(Or(po.defaults.socialImage, sm.socialImage),
                                        sm.defaultImage),
                     siteOwner |-> Undef,
                     robots |-> Undef],
                    po.defaults),
         social |->
             Spread(Spread([NoSocial EXCEPT
                               !.siteName = Or(Or(Or(po.social.siteName, sm.name), sm.title),
                                               v.deducedSiteName),
                               !.locale = Or(Or(po.social.locale, sm.locale), Str(<<"en_US">>)),
                               !.twitterSite = Or(po.social.twitterSite, sm.twitter),
                               !.facebookAppId = Or(po.social.facebookAppId, sm.facebookAppId)],
                           sm.social),
                    po.social),
         jsonLd |->
             Spread(Spread([organization |-> Or(po.jsonLd.organization, sm.organization)],
                           sm.jsonLd),
                    po.jsonLd)]

\* the plugins of the process and the files of a build: none, a page, the
\* index page
CacheOptionSets == {NoPluginOptions, HostnameOnlyOptions}

CacheFileLists == {l \in PluginFileLists : Len(l) <= 1}

\* the cached entry up to its validation: the site values are taken from the
\* cache or found out and cached, the configuration is merged, and a
\* configuration without hostname throws
CachedPluginCall ==
    /\ ppc = "start"
    /\ LET v == SiteValuesUsed(siteMetadataCache, pluginOptions, siteMetadata, fileList)
           c == CachedConfig(pluginOptions, v)
       IN  /\ siteMetadataCache' = v
           /\ config' = c
           /\ ppc' = IF Truthy(c.hostname) THEN "configured" ELSE "threw"
    /\ UNCHANGED <<resolveVars, headVars, batchVars, pluginOptions, siteMetadata, sitemap,
                   robotsTxt, doneArg, runs, doneCalls>>

\* the next invocation in the same process: another build, with the site
\* metadata and the files it has
NextInvocation ==
    /\ ppc \in {"configured", "threw"}
    /\ runs + 1 < MaxRuns
    /\ runs' = runs + 1
    /\ ppc' = "start"
    /\ siteMetadata' \in SiteMetadataSets
    /\ fileList' \in CacheFileLists
    /\ task' = [d \in 1..Len(fileList') |->
                   [st |-> "pending", html |-> PlainHead, seoMetadata |-> FALSE]]
    /\ results' = [d \in 1..Len(fileList') |-> "none"]
    /\ waveOf' = [d \in 1..Len(fileList') |-> 0]
    /\ UNCHANGED <<resolveVars, headVars, batchSize, bi, bpc, wave, pluginOptions, config,
                   sitemap, robotsTxt, doneArg, doneCalls, siteMetadataCache>>

InitCache ==
    /\ pluginOptions \in CacheOptionSets
    /\ siteMetadata \in SiteMetadataSets
    /\ siteMetadataCache = Null
    /\ config = Undef
    /\ sitemap = NoSitemap
    /\ robotsTxt = [exists |-> FALSE, content |-> <<>>, original |-> <<>>, added |-> 0]
    /\ ppc = "start"
    /\ doneArg = "none"
    /\ doneCalls = 0
    /\ runs = 0
    /\ fileList \in CacheFileLists
    /\ batchSize = 0
    /\ bi = 0
    /\ task = [d \in 1..Len(fileList) |->
                  [st |-> "pending", html |-> PlainHead, seoMetadata |-> FALSE]]
    /\ results = [d \in 1..Len(fileList) |-> "none"]
    /\ bpc = "idle"
    /\ waveOf = [d \in 1..Len(fileList) |-> 0]
    /\ wave = 0
    /\ ResolveIdle
    /\ HeadIdle

NextCache == CachedPluginCall \/ NextInvocation

SpecCache == InitCache /\ [][NextCache]_vars

\* C29: the effective configuration of an invocation depends only on that
\* invocation's options, metalsmith metadata and files: no site metadata and
\* no deduced site name of an earlier invocation is used.
C29_NoRememberedSiteMetadata ==
    ppc \in {"configured", "threw"} =>
        config = CachedConfig(pluginOptions, SiteValues(pluginOptions, siteMetadata, fileList))

=============================================================================
